---- MODULE Spec2Model ----
(***************************************************************************)
(* Lutine Master Calendar intake app (src/app.py): the reconciliation      *)
(* between the local event store (Supabase "events", "notifications",      *)
(* "graph_state") and the Outlook calendar (Microsoft Graph).              *)
(*                                                                         *)
(* Conventions of the model                                                *)
(*   - a date is a day number, a time of day is minutes after midnight, a  *)
(*     UTC instant is minutes after day 0, 00:00 UTC;                      *)
(*   - an HTML body is a sequence of tokens [k |-> kind, v |-> value]:     *)
(*     the tags, the "Meeting Manager:" label, the bracketed               *)
(*     "Outlook Event ID" token and other text. The three regular          *)
(*     expressions of update_outlook_manager_block are evaluated on that   *)
(*     sequence the way re.sub evaluates them on the string (leftmost      *)
(*     match, lazy quantifiers, non-overlapping, left to right);           *)
(*   - NULL stands for Python's None / SQL NULL.                           *)
(***************************************************************************)
EXTENDS Integers, Sequences, FiniteSets, TLC

VARIABLES
    events,      \* Supabase table "events": local row id -> row
    nextId,      \* next serial id of table "events"
    notifs,      \* Supabase table "notifications": set of rows
    cal,         \* the shared mailbox calendar: Outlook event id -> event
    usedIds,     \* Outlook event ids the calendar has handed out
    config,      \* which secrets are set: [graph, supabase]
    session,     \* st.session_state of the Create tab
    last,        \* what the last handler run did (calls made, messages shown)
    cursor,      \* Supabase table "graph_state", scope "default": the delta link
    entered,     \* history: local row id -> the dates last entered for it in a form
    body,        \* manager-block study: the body the calendar holds
    start,       \* manager-block study: the body it started from, as segments
    blkArgs,     \* manager-block study: the (name, id) every call passes
    applied      \* manager-block study: successful calls so far

vars == <<events, nextId, notifs, cal, usedIds, config, session, last, cursor, entered,
          body, start, blkArgs, applied>>

NULL == "null"

----------------------------------------------------------------------------
(* HTML bodies as token sequences                                          *)

Tok(k, v) == [k |-> k, v |-> v]

TopenTok      == Tok("topen", "table")      \* <table ...>
TcloseTok     == Tok("tclose", "table")     \* </table>
OpenTok(tag)  == Tok("open", tag)           \* <p ...>, <div ...>, <span ...>, <td ...>
CloseTok(tag) == Tok("close", tag)          \* </p>, </div>, </span>, </td>
MmTok(name)   == Tok("mm", name)            \* Meeting Manager: <name>
IdTok(eid)    == Tok("id", eid)             \* [App Outlook Event ID<eid>]
TextTok(t)    == Tok("text", t)             \* any other content
FragTok       == Tok("text", "frag")        \* what is left of a token cut in two

\* The identifier texts a bracketed token can carry.  Placeholder is the
\* text Create sends before the id is known; Blank is white space only.
Placeholder == "will sync here"
Blank       == " "

\* Length in characters of a token as rendered (only the greedy .{0,50}
\* tail of pat_inline depends on it).
TokLen(t) ==
    CASE t.k = "topen"  -> 7
      [] t.k = "tclose" -> 8
      [] t.k = "open"   -> IF t.v \in {"p"} THEN 3 ELSE IF t.v = "td" THEN 4
                           ELSE IF t.v = "div" THEN 5 ELSE 6
      [] t.k = "close"  -> IF t.v \in {"p"} THEN 4 ELSE IF t.v = "td" THEN 5
                           ELSE IF t.v = "div" THEN 6 ELSE 7
      [] t.k = "mm"     -> IF t.v = "R&amp;D" THEN 24 ELSE 20
      [] t.k = "id"     -> IF t.v = "will sync here" THEN 37 ELSE 26
      [] OTHER          -> IF t.v = "manual" THEN 60 ELSE 18

\* html.escape on a manager name or an id: & < > and quotes become entities.
HtmlEscape(s) == IF s = "R&D" THEN "R&amp;D" ELSE s

\* html.escape on a whole body (contentType "text"): tags stop being tags,
\* the label and the bracketed token keep their text.
EscapeTok(t) == IF t.k \in {"topen", "tclose", "open", "close"} THEN TextTok("esc") ELSE t
EscapeBody(s) == [i \in 1..Len(s) |-> EscapeTok(s[i])]

Min(S) == CHOOSE x \in S : \A y \in S : x <= y

\* Index of the first token of kind k at or after position p; 0 when none.
IdxOf(s, p, k) ==
    LET S == {i \in p..Len(s) : s[i].k = k}
    IN  IF S = {} THEN 0 ELSE Min(S)

\* Index of the first closing tag `tag` at or after position p; 0 when none.
IdxClose(s, p, tag) ==
    LET S == {i \in p..Len(s) : s[i].k = "close" /\ s[i].v = tag}
    IN  IF S = {} THEN 0 ELSE Min(S)

\* End of "Meeting\s*Manager:.*?\[.*?Outlook\s+Event\s+ID.*?\]" started
\* after position i: the first id token after the first label; 0 when none.
LabelIdEnd(s, i) ==
    LET j == IdxOf(s, i + 1, "mm")
    IN  IF j = 0 THEN 0 ELSE IdxOf(s, j + 1, "id")

\* re.search(r"\[(?:App\s+)?Outlook\s+Event\s+ID:?\s*(?P<eid>[^\]]+)\]"):
\* the text of the first bracketed token, stripped; "" when there is none.
Strip(e) == IF e = Blank THEN "" ELSE e
FirstEid(s) ==
    LET k == IdxOf(s, 1, "id")
    IN  IF k = 0 THEN "" ELSE Strip(s[k].v)

\* Mutant: the caller's id always wins.
PreservedIdFromArgument(s, outlook_event_id) == outlook_event_id

\* preserved_id = (m_id.group("eid").strip() if m_id else "") or outlook_event_id
PreservedId(s, outlook_event_id) ==
    IF FirstEid(s) # "" THEN FirstEid(s) ELSE outlook_event_id

\* pat_table.sub("", s)
RECURSIVE SubTable(_)
SubTable(s) ==
    LET i == IdxOf(s, 1, "topen")
        k == IF i = 0 THEN 0 ELSE LabelIdEnd(s, i)
        l == IF k = 0 THEN 0 ELSE IdxOf(s, k + 1, "tclose")
    IN  IF l = 0 THEN s
        ELSE SubSeq(s, 1, i - 1) \o SubTable(SubSeq(s, l + 1, Len(s)))

\* pat_block.sub("", s): the closing tag must be the opening one's
BlockTags == {"p", "div", "span", "td"}
BlockEnd(s, i) ==
    LET k == LabelIdEnd(s, i)
    IN  IF k = 0 THEN 0 ELSE IdxClose(s, k + 1, s[i].v)
RECURSIVE SubBlock(_)
SubBlock(s) ==
    LET cands == {i \in 1..Len(s) :
                    s[i].k = "open" /\ s[i].v \in BlockTags /\ BlockEnd(s, i) # 0}
    IN  IF cands = {} THEN s
        ELSE LET i == Min(cands)
                 l == BlockEnd(s, i)
             IN  SubSeq(s, 1, i - 1) \o SubBlock(SubSeq(s, l + 1, Len(s)))

\* the greedy tail .{0,50} of pat_inline: n more characters, whatever they are
InlineTail == 50
RECURSIVE EatTail(_, _)
EatTail(r, n) ==
    IF r = <<>> \/ n = 0 THEN r
    ELSE IF TokLen(Head(r)) <= n THEN EatTail(Tail(r), n - TokLen(Head(r)))
    ELSE <<FragTok>> \o Tail(r)

\* pat_inline.sub("", s)
RECURSIVE SubInline(_)
SubInline(s) ==
    LET j == IdxOf(s, 1, "mm")
        k == IF j = 0 THEN 0 ELSE IdxOf(s, j + 1, "id")
    IN  IF k = 0 THEN s
        ELSE SubSeq(s, 1, j - 1) \o SubInline(EatTail(SubSeq(s, k + 1, Len(s)), InlineTail))

\* Mutant: only the table variant is removed.
StripTablesOnly(s) == SubTable(s)

\* one round of the removal loop
StripOnce(s) == SubInline(SubBlock(SubTable(s)))

\* while changed: ... (to the fixed point)
RECURSIVE StripManagerBlocks(_)
StripManagerBlocks(s) ==
    LET new_html == StripOnce(s)
    IN  IF new_html = s THEN s ELSE StripManagerBlocks(new_html)

\* the block the app renders: one 11pt table
ManagerBlock(safe_mgr, safe_id) ==
    << TopenTok, OpenTok("td"), MmTok(safe_mgr), IdTok(safe_id), CloseTok("td"), TcloseTok >>

\* The body update_outlook_manager_block PATCHes back, from the body it
\* fetched (b = [ctype, content]).
NewManagerBody(b, outlook_event_id, manager_name) ==
    LET cur_html == IF b.ctype = "text" /\ b.content # <<>>
                    THEN <<TextTok("pre")>> \o EscapeBody(b.content) \o <<TextTok("pre")>>
                    ELSE b.content
        preserved_id == PreservedId(cur_html, outlook_event_id)
    IN  [ctype |-> "html",
         content |-> StripManagerBlocks(cur_html)
                       \o ManagerBlock(HtmlEscape(manager_name), HtmlEscape(preserved_id))]

----------------------------------------------------------------------------
(* update_outlook_manager_block against one calendar body                  *)

\* Mutant: a PATCH that fails has already changed the body.
UpdateOutlookManagerBlockHalfWritten(b, outlook_event_id, manager_name, getOK, patchOK) ==
    IF getOK
    THEN [ok |-> patchOK, body |-> NewManagerBody(b, outlook_event_id, manager_name)]
    ELSE [ok |-> FALSE, body |-> b]

\* update_outlook_manager_block: GET the body, rewrite it, PATCH it back.
\* Any exception (a failed GET, a failed PATCH) returns False and leaves
\* the calendar body as it was.
UpdateOutlookManagerBlock(b, outlook_event_id, manager_name, getOK, patchOK) ==
    IF getOK /\ patchOK
    THEN [ok |-> TRUE,  body |-> NewManagerBody(b, outlook_event_id, manager_name)]
    ELSE [ok |-> FALSE, body |-> b]

EmptyFn == [x \in {} |-> NULL]

\* The state of the stores before anything was created.
InitStores ==
    /\ events = EmptyFn
    /\ nextId = 1
    /\ notifs = {}
    /\ cal = EmptyFn
    /\ usedIds = {}
    /\ session = [confirm_no_link |-> FALSE, prev_event_type_create |-> NULL]
    /\ last = [op |-> "none"]
    /\ cursor = NULL
    /\ entered = EmptyFn

\* Bodies the calendar can hold: some segments one after the other, each
\* other content (a client paragraph, a manually added table, bare text),
\* a manager block in one of its wrappers, or a stray label or token.
MaxSegs  == 3
MaxApply == 2

Wrappers  == {"p", "div"}
BodyEids  == {"e1", Placeholder}
OtherSegs == { << OpenTok("p"), TextTok("client"), CloseTok("p") >>,
               << TopenTok, TextTok("manual"), TcloseTok >>,
               << TextTok("manual") >> }
ManagerSegs ==
    { ManagerBlock("Old", e) : e \in BodyEids }
    \cup { << OpenTok(w), MmTok("Old"), IdTok(e), CloseTok(w) >> : w \in Wrappers, e \in BodyEids }
    \cup { << MmTok("Old"), IdTok(e) >> : e \in BodyEids }
StraySegs == { << IdTok("e1") >>, << MmTok("Old") >> }
Segments  == OtherSegs \cup ManagerSegs \cup StraySegs

RECURSIVE Flatten(_)
Flatten(ss) == IF ss = <<>> THEN <<>> ELSE Head(ss) \o Flatten(Tail(ss))

SegLists == UNION { [1..n -> Segments] : n \in 0..MaxSegs }

InitBlock ==
    /\ InitStores
    /\ config = [graph |-> TRUE, supabase |-> TRUE]
    /\ start \in [ctype : {"html", "text"}, segs : SegLists]
    /\ body = [ctype |-> start.ctype, content |-> Flatten(start.segs)]
    /\ blkArgs \in [name : {"R&D"}, id : {"e1", "e2"}]
    /\ applied = 0

\* One call of update_outlook_manager_block with the same (name, id).
ApplyManagerBlock ==
    /\ applied < MaxApply
    /\ \E getOK \in BOOLEAN, patchOK \in BOOLEAN :
         LET r == UpdateOutlookManagerBlock(body, blkArgs.id, blkArgs.name, getOK, patchOK)
         IN  /\ body' = r.body
             /\ applied' = IF r.ok THEN applied + 1 ELSE applied
             /\ last' = [op |-> "manager_block", ok |-> r.ok]
    /\ UNCHANGED <<events, nextId, notifs, cal, usedIds, config, session, cursor, entered,
                   start, blkArgs>>

NextBlock == ApplyManagerBlock

SpecBlock == InitBlock /\ [][NextBlock]_vars

----------------------------------------------------------------------------
(* Time zones, dates and instants                                          *)

ZoneLabels == {"Eastern", "Central", "Mountain", "Pacific", "Alaska", "Hawaii"}

TZ_MAP(label) ==
    CASE label = "Eastern"  -> "Eastern Standard Time"
      [] label = "Central"  -> "Central Standard Time"
      [] label = "Mountain" -> "Mountain Standard Time"
      [] label = "Pacific"  -> "Pacific Standard Time"
      [] label = "Alaska"   -> "Alaskan Standard Time"
      [] label = "Hawaii"   -> "Hawaiian Standard Time"

IANA_MAP(label) ==
    CASE label = "Eastern"  -> "America/New_York"
      [] label = "Central"  -> "America/Chicago"
      [] label = "Mountain" -> "America/Denver"
      [] label = "Pacific"  -> "America/Los_Angeles"
      [] label = "Alaska"   -> "America/Anchorage"
      [] label = "Hawaii"   -> "Pacific/Honolulu"

\* ZoneInfo(zone): minutes to add to UTC to get the wall clock of the zone
\* in standard time
UtcOffset(zone) ==
    CASE zone \in {"America/New_York", "Eastern Standard Time"}     -> -300
      [] zone \in {"America/Chicago", "Central Standard Time"}      -> -360
      [] zone \in {"America/Denver", "Mountain Standard Time"}      -> -420
      [] zone \in {"America/Los_Angeles", "Pacific Standard Time"}  -> -480
      [] zone \in {"America/Anchorage", "Alaskan Standard Time"}    -> -540
      [] zone \in {"Pacific/Honolulu", "Hawaiian Standard Time"}    -> -600
      [] OTHER                                                      -> 0

DayMinutes == 1440

\* Daylight saving starts on day SpringForward.date at 02:00 standard time:
\* the wall clock of the zones that observe it jumps to 03:00.  The days
\* before it are in standard time, and the model ends before the autumn.
SpringForward == [date |-> 9, time |-> 120]
ObservesDst(zone) ==
    zone \notin {"Pacific/Honolulu", "Hawaiian Standard Time", "UTC"}

\* tz.utcoffset(wall) for a wall clock built with fold = 0: a time in the
\* skipped hour keeps the offset of before the jump
WallOffset(zone, wall) ==
    UtcOffset(zone)
    + (IF ObservesDst(zone)
          /\ wall >= SpringForward.date * DayMinutes + SpringForward.time + 60
       THEN 60 ELSE 0)
\* the offset of the zone at an instant
InstantOffset(zone, inst) ==
    UtcOffset(zone)
    + (IF ObservesDst(zone)
          /\ inst >= SpringForward.date * DayMinutes + SpringForward.time - UtcOffset(zone)
       THEN 60 ELSE 0)

\* datetime.combine(d, t).replace(tzinfo=tz): a wall clock in a zone
Combine(d, t, tz) == [date |-> d, time |-> t, tz |-> tz]
\* dt + timedelta(days=n)
PlusDays(dt, n) == [dt EXCEPT !.date = @ + n]
\* the wall clock as minutes after day 0, 00:00
Wall(dt) == dt.date * DayMinutes + dt.time
\* dt.astimezone(ZoneInfo("UTC")), as an instant; isoformat() keeps it
ToUtc(dt) == Wall(dt) - WallOffset(dt.tz, Wall(dt))
\* instant.astimezone(tz)
AsZone(inst, tz) ==
    LET w == inst + InstantOffset(tz, inst)
    IN  [date |-> w \div DayMinutes, time |-> w % DayMinutes, tz |-> tz]
\* dt.strftime("%Y-%m-%dT%H:%M:%S"): the wall clock, the zone dropped
Strftime(dt) == [date |-> dt.date, time |-> dt.time]
\* date.isoformat(): a date and nothing else
IsoDate(d) == [date |-> d]
\* isinstance(x, datetime)
IsDatetime(x) == "time" \in DOMAIN x
\* max(a, b)
Max2(a, b) == IF a >= b THEN a ELSE b
Min2(a, b) == IF a <= b THEN a ELSE b

\* graph_datetime_obj(dt_local, tz_windows=...)
GraphDatetimeObj(dt_local, tz_windows) ==
    [dateTime |-> Strftime(dt_local), timeZone |-> tz_windows]

----------------------------------------------------------------------------
(* Payload builder                                                         *)

\* build_graph_event_payload.  A key the code leaves out of the dict is
\* NULL here (isAllDay and isOnlineMeeting: FALSE, Graph's default).
BuildGraphEventPayload(subject, body_html, tz_windows, start_dt, end_dt, is_all_day, location_str, set_teams, reminder_minutes) ==
    [ subject |-> subject,
      isReminderOn |-> TRUE,
      reminderMinutesBeforeStart |-> reminder_minutes,
      body |-> [ctype |-> "html", content |-> body_html],
      showAs |-> "free",
      isAllDay |-> is_all_day,
      start |-> IF is_all_day
                THEN [dateTime |-> IsoDate(start_dt.date), timeZone |-> tz_windows]
                ELSE [dateTime |-> Strftime(start_dt), timeZone |-> tz_windows],
      end   |-> IF is_all_day
                THEN [dateTime |-> IsoDate(end_dt.date), timeZone |-> tz_windows]
                ELSE [dateTime |-> Strftime(end_dt), timeZone |-> tz_windows],
      location |-> IF location_str \notin {NULL, ""} THEN location_str ELSE NULL,
      isOnlineMeeting |-> set_teams,
      onlineMeetingProvider |-> IF set_teams THEN "teamsForBusiness" ELSE NULL ]

\* reminder minutes sent to Graph (Create lines 737-745, Save lines 1158-1166)
ReminderCap == 525600
\* Mutant: the days are passed on as they are.
RemMinutesForGraphDaysRaw(rem_mode, reminder_minutes, reminder_days) ==
    LET raw == CASE rem_mode = "Minutes" -> reminder_minutes
                 [] rem_mode = "Days"    -> reminder_days
                 [] OTHER                -> 0
    IN  Max2(0, Min2(raw, ReminderCap))
RemMinutesForGraph(rem_mode, reminder_minutes, reminder_days) ==
    LET raw == CASE rem_mode = "Minutes" -> reminder_minutes
                 [] rem_mode = "Days"    -> reminder_days * DayMinutes
                 [] OTHER                -> 0
    IN  Max2(0, Min2(raw, ReminderCap))

----------------------------------------------------------------------------
(* The calendar (Microsoft Graph, shared mailbox)                          *)

\* Ids Graph hands out, in the order it hands them out.
EventIdSeq == << "e1", "e2", "e3", "e4", "e5" >>
FreshId == EventIdSeq[Cardinality(usedIds) + 1]

\* POST /calendar/events: what the calendar keeps of a payload.  A Teams
\* meeting gets its join link from the calendar.
CalEventOf(payload) ==
    [ subject |-> payload.subject,
      isAllDay |-> payload.isAllDay,
      start |-> payload.start,
      end |-> payload.end,
      location |-> IF payload.location = NULL THEN "" ELSE payload.location,
      isOnlineMeeting |-> payload.isOnlineMeeting,
      isReminderOn |-> payload.isReminderOn,
      reminderMinutesBeforeStart |-> payload.reminderMinutesBeforeStart,
      showAs |-> payload.showAs,
      joinUrl |-> IF payload.isOnlineMeeting THEN "teams-join" ELSE NULL,
      body |-> payload.body ]

----------------------------------------------------------------------------
(* Create tab                                                              *)

\* Lines 543-546, run on every rerun of the script: a change of the event
\* type since the last rerun clears the confirmation flag.
CreateTabSession(sess, event_type) ==
    [ confirm_no_link |-> IF sess.prev_event_type_create # event_type
                          THEN FALSE ELSE sess.confirm_no_link,
      prev_event_type_create |-> event_type ]

\* Lines 670-679: the validation messages of a submission
CreateErrors(f) ==
    \/ f.subject = ""
    \/ f.event_type = "In-person" /\ f.location = ""
    \/ f.manager_sel = "Other" /\ (f.manager_name = "" \/ f.manager_email = "")

\* Lines 681-690: start and end in the local zone
CreateStartLocal(f) ==
    IF f.is_all_day
    THEN Combine(f.start_date, 0, IANA_MAP(f.tz_choice))
    ELSE Combine(f.start_date, f.start_time, IANA_MAP(f.tz_choice))
CreateEndLocal(f) ==
    IF f.is_all_day
    THEN Combine(Max2(f.end_date, f.start_date) + 1, 0, IANA_MAP(f.tz_choice))
    ELSE Combine(f.end_date, f.end_time, IANA_MAP(f.tz_choice))

\* Lines 709-729: client line (when a client is given), accreditation
\* line, manager block with the placeholder for the id
CombinedBody(f) ==
    (IF f.client_value # ""
     THEN << OpenTok("p"), Tok("client", HtmlEscape(f.client_value)), CloseTok("p") >>
     ELSE << >>)
    \o << OpenTok("p"), Tok("acc", IF f.accreditation_required THEN "Yes" ELSE "No"),
          CloseTok("p") >>
    \o ManagerBlock(HtmlEscape(f.manager_name), Placeholder)

\* combined_body.replace("[App Outlook Event ID will sync here]",
\*                       f"[App Outlook Event ID: {outlook_event_id}]")
ReplacePlaceholder(b, outlook_event_id) ==
    [i \in 1..Len(b) |-> IF b[i] = IdTok(Placeholder) THEN IdTok(outlook_event_id) ELSE b[i]]

\* Lines 732-757: the payload of a submission
CreatePayload(f) ==
    BuildGraphEventPayload(
        f.subject,
        CombinedBody(f),
        TZ_MAP(f.tz_choice),
        IF f.is_all_day THEN IsoDate(f.start_date) ELSE CreateStartLocal(f),
        IF f.is_all_day THEN IsoDate(f.end_date) ELSE CreateEndLocal(f),
        f.is_all_day,
        IF f.event_type = "In-person" THEN f.location
        ELSE IF f.virtual_provider = "zoom" THEN f.virtual_link ELSE NULL,
        f.event_type = "Virtual" /\ f.virtual_provider = "teams",
        RemMinutesForGraph(f.rem_mode, f.reminder_minutes, f.reminder_days))

OrNull(x) == IF x = "" THEN NULL ELSE x

\* Lines 789-807: the row Create inserts
CreateRow(f, outlook_event_id, patched_body_for_db) ==
    [ subject |-> f.subject,
      client |-> OrNull(f.client_value),
      start_dt_utc |-> ToUtc(CreateStartLocal(f)),
      end_dt_utc |-> ToUtc(CreateEndLocal(f)),
      timezone_display |-> IANA_MAP(f.tz_choice),
      is_all_day |-> f.is_all_day,
      location |-> OrNull(f.location),
      event_type |-> IF f.event_type = "Virtual" THEN "virtual" ELSE "in_person",
      virtual_provider |-> OrNull(f.virtual_provider),
      virtual_link |-> OrNull(f.virtual_link),
      meeting_manager_name |-> f.manager_name,
      meeting_manager_email |-> f.manager_email,
      reminder_minutes |-> RemMinutesForGraph(f.rem_mode, f.reminder_minutes, f.reminder_days),
      outlook_event_id |-> outlook_event_id,
      accreditation_required |-> f.accreditation_required,
      outlook_body_html |-> patched_body_for_db ]

\* timedelta(days=7) of line 835
MissingLinkDays == 7

\* A due time: a wall clock of a zone turned into UTC, or the clock of the
\* server at the operation plus a number of days
DueAt(at, zone) == [at |-> at, zone |-> zone, plus_days |-> 0]
DueAfterNow(days) == [at |-> "utcnow", zone |-> "UTC", plus_days |-> days]
\* A row written without the payload column
NoPayload == [to |-> NULL, subject |-> NULL, client |-> NULL]

\* Lines 812-843: the notifications Create seeds for the row it inserted
CreateNotifications(f, inserted_event_id, notifOK) ==
    (IF f.rem_mode = "OnDate" /\ f.reminder_datetime_local # NULL /\ notifOK
     THEN { [ event_id |-> inserted_event_id, type |-> "custom_email", channel |-> "email",
              notify_at_utc |-> DueAt(f.reminder_datetime_local, IANA_MAP(f.tz_choice)),
              payload |-> [to |-> f.manager_email, subject |-> f.subject, client |-> f.client_value] ] }
     ELSE {})
    \cup
    (IF f.event_type = "Virtual" /\ f.virtual_link = "" /\ notifOK
     THEN { [ event_id |-> inserted_event_id, type |-> "missing_link", channel |-> "email",
              notify_at_utc |-> DueAfterNow(MissingLinkDays),
              payload |-> NoPayload ] }
     ELSE {})

\* Mutant: no local row when the calendar create did not go through.
CreateStoresRowIfLinked(o, created) == config.supabase /\ o.store # "fail" /\ created

\* Line 787-808: the insert is attempted whatever the calendar did; it
\* goes through when Supabase is configured and the insert does not fail.
CreateStoresRow(o, created) == config.supabase /\ o.store # "fail"

\* Mutant: the submission never stops to ask.
AsksConfirmationNever(f, sess) == FALSE

\* Line 666: a virtual event with a blank link and the flag unset
AsksConfirmation(f, sess) ==
    f.event_type = "Virtual" /\ f.virtual_link = "" /\ ~sess.confirm_no_link

\* start_dt_local and end_dt_local carry the same tzinfo object, and Python
\* then compares the wall clocks and leaves the offsets out (lines 691, 1151)
EndNotAfterStart(start_dt_local, end_dt_local) ==
    Wall(end_dt_local) <= Wall(start_dt_local)

\* Mutant: the id is kept only when the body PATCH went through.
OutlookEventIdIfPatched(created, patchOK, fresh) ==
    IF created /\ patchOK THEN fresh ELSE NULL

\* Line 765: the id is read from the answer of graph_create_event, before
\* the PATCH of the body is sent; a PATCH that raises leaves it set.
OutlookEventId(created, patchOK, fresh) ==
    IF created THEN fresh ELSE NULL

\* The whole handling of a click on "Create Event" (lines 543-546 and
\* 665-874).  f: the form; o: the outcomes of the calls,
\* [tokenOK, createOK, patchOK, store ("ok" | "nodata" | "fail"), notifOK].
Create(f, o) ==
    LET sess1            == CreateTabSession(session, f.event_type)
        start_dt_local   == CreateStartLocal(f)
        end_dt_local     == CreateEndLocal(f)
        combined_body    == CombinedBody(f)
        payload          == CreatePayload(f)
        tokenOK          == config.graph /\ o.tokenOK
        created          == tokenOK /\ o.createOK
        outlook_event_id == OutlookEventId(created, o.patchOK, FreshId)
        patched_body_for_db ==
            IF created THEN ReplacePlaceholder(combined_body, outlook_event_id)
            ELSE combined_body
        patched          == created /\ o.patchOK
        stored           == CreateStoresRow(o, created)
        \* 0: None, the insert returned no row
        inserted_event_id == IF o.store = "ok" THEN nextId ELSE 0
        timing           == [is_all_day |-> f.is_all_day, start_date |-> f.start_date,
                             end_date |-> f.end_date, tz_choice |-> f.tz_choice]
        \* a notification of the submission that did not reach the row: its
        \* insert raised (lines 829, 842) or it was stored with event_id None
        notifLost        == stored /\ (~o.notifOK \/ o.store # "ok")
                            /\ CreateNotifications(f, nextId, TRUE) # {}
    IN
    IF AsksConfirmation(f, sess1)
    THEN \* lines 666-668: ask for the confirmation and stop
         /\ session' = [sess1 EXCEPT !.confirm_no_link = TRUE]
         /\ last' = [op |-> "create", result |-> "halted", calls |-> << >>, msgs |-> {},
                     form |-> f]
         /\ UNCHANGED <<events, nextId, notifs, cal, usedIds, entered>>
    ELSE IF CreateErrors(f) \/ (~f.is_all_day /\ EndNotAfterStart(start_dt_local, end_dt_local))
    THEN \* lines 677-679 and 691-693: st.error, st.stop
         /\ session' = sess1
         /\ last' = [op |-> "create", result |-> "rejected", calls |-> << >>, msgs |-> {"error"}]
         /\ UNCHANGED <<events, nextId, notifs, cal, usedIds, entered>>
    ELSE /\ session' = sess1
         /\ cal' = IF created
                   THEN cal @@ (outlook_event_id :>
                          [CalEventOf(payload) EXCEPT !.body =
                              IF patched
                              THEN [ctype |-> "html", content |-> patched_body_for_db]
                              ELSE @])
                   ELSE cal
         /\ usedIds' = IF created THEN usedIds \cup {outlook_event_id} ELSE usedIds
         /\ events' = IF stored
                      THEN events @@ (nextId :> CreateRow(f, outlook_event_id, patched_body_for_db))
                      ELSE events
         /\ nextId' = IF stored THEN nextId + 1 ELSE nextId
         /\ entered' = IF stored THEN entered @@ (nextId :> timing) ELSE entered
         /\ notifs' = IF stored
                      THEN notifs \cup CreateNotifications(f, inserted_event_id, o.notifOK)
                      ELSE notifs
         /\ last' = [ op |-> "create", result |-> "done",
                      calls |-> (IF config.graph THEN <<"graph_token">> ELSE << >>)
                                \o (IF tokenOK THEN <<"graph_create">> ELSE << >>)
                                \o (IF created THEN <<"graph_patch_body">> ELSE << >>)
                                \o (IF config.supabase THEN <<"events_insert">> ELSE << >>),
                      msgs |-> (IF patched THEN {} ELSE {"warning"})
                               \cup (IF stored THEN {"success"} ELSE {"error"}),
                      entered |-> timing,
                      payload |-> payload,
                      storeFailed |-> ~(config.supabase /\ o.store # "fail"),
                      linked |-> created,
                      patched |-> patched,
                      notifLost |-> notifLost,
                      event_type |-> f.event_type,
                      virtual_link |-> f.virtual_link,
                      form |-> f,
                      row |-> IF stored THEN nextId ELSE 0 ]

----------------------------------------------------------------------------
(* Edit tab                                                                *)

\* The tab lists events only when Supabase is configured and st.stop()s
\* when the list is empty (lines 915-929): every handler below it, the
\* sidebar included, runs only with a selected event ev.
EditTabOpen == config.supabase /\ DOMAIN events # {}

\* next(label for label, iana in IANA_MAP.items() if iana == iana_e)
LabelOfIana(iana) == CHOOSE l \in ZoneLabels : IANA_MAP(l) = iana

\* Lines 941-961 (session seeding) and 999-1067 (prefill): what the edit
\* form shows for a row before the user changes anything.
EditSeed(ev) ==
    LET start_e == AsZone(ev.start_dt_utc, ev.timezone_display)
        end_e   == AsZone(ev.end_dt_utc, ev.timezone_display)
    IN  [ subject |-> ev.subject,
          tz_choice |-> LabelOfIana(ev.timezone_display),
          is_all_day |-> ev.is_all_day,
          start_date |-> start_e.date,
          end_date |-> IF ev.is_all_day THEN PlusDays(end_e, -1).date ELSE end_e.date,
          start_time |-> start_e.time,
          end_time |-> IF ev.is_all_day THEN 0 ELSE end_e.time,
          event_type |-> IF ev.event_type = "in_person" THEN "In-person" ELSE "Virtual",
          location |-> IF ev.event_type = "in_person"
                       THEN (IF ev.location = NULL THEN "" ELSE ev.location) ELSE "",
          virtual_provider |-> IF ev.event_type = "in_person" THEN NULL
                               ELSE IF ev.virtual_provider \in {"teams", "zoom"}
                                    THEN ev.virtual_provider ELSE "other",
          virtual_link |-> IF ev.event_type = "in_person" THEN NULL
                           ELSE IF ev.virtual_link = NULL THEN "" ELSE ev.virtual_link,
          accreditation_required |-> ev.accreditation_required,
          manager_name |-> ev.meeting_manager_name,
          manager_email |-> ev.meeting_manager_email,
          rem_mode |-> IF ev.reminder_minutes >= DayMinutes THEN "Days"
                       ELSE IF ev.reminder_minutes > 0 THEN "Minutes" ELSE "OnDate",
          reminder_minutes |-> IF ev.reminder_minutes > 0 /\ ev.reminder_minutes < DayMinutes
                               THEN ev.reminder_minutes ELSE 30,
          reminder_days |-> IF ev.reminder_minutes >= DayMinutes
                            THEN Max2(1, ev.reminder_minutes \div DayMinutes) ELSE 1,
          reminder_datetime_local |-> "today 09:00" ]

\* graph_delete_event: 204 and 404 both count as deleted
GraphDeleteEvent(calendar, outlook_event_id) ==
    [id \in DOMAIN calendar \ {outlook_event_id} |-> calendar[id]]

\* Lines 979-990: the delete of the local row is reached unless the
\* token request raised (it is outside the inner try).
DeleteReachesStore(ev, o) ==
    ~(ev.outlook_event_id # NULL /\ config.graph /\ ~o.tokenOK)

\* The whole handling of a click on "Delete Event" (lines 978-995) for the
\* selected row id; o: [tokenOK, deleteOK, store ("ok" | "fail")].
Delete(id, o) ==
    LET ev       == events[id]
        callsCal == ev.outlook_event_id # NULL /\ config.graph
        reached  == DeleteReachesStore(ev, o)
        calGone  == callsCal /\ o.tokenOK /\ o.deleteOK
        deleted  == reached /\ o.store = "ok"
    IN  /\ cal' = IF calGone THEN GraphDeleteEvent(cal, ev.outlook_event_id) ELSE cal
        /\ events' = IF deleted THEN [r \in DOMAIN events \ {id} |-> events[r]] ELSE events
        \* notifications go with the row (foreign key, ON DELETE CASCADE)
        /\ notifs' = IF deleted THEN {n \in notifs : n.event_id # id} ELSE notifs
        /\ entered' = IF deleted THEN [r \in DOMAIN entered \ {id} |-> entered[r]] ELSE entered
        /\ last' = [ op |-> "delete", result |-> "done", row |-> id,
                     calls |-> (IF callsCal THEN <<"graph_token">> ELSE << >>)
                               \o (IF callsCal /\ o.tokenOK THEN <<"graph_delete">> ELSE << >>)
                               \o (IF reached THEN <<"events_delete">> ELSE << >>),
                     msgs |-> (IF callsCal /\ o.tokenOK /\ ~o.deleteOK THEN {"warning"} ELSE {})
                              \cup (IF deleted THEN {"success"} ELSE {"error"}),
                     tokenFailed |-> callsCal /\ ~o.tokenOK,
                     deleteFailed |-> callsCal /\ o.tokenOK /\ ~o.deleteOK,
                     storeFailed |-> reached /\ o.store # "ok" ]
        /\ UNCHANGED <<nextId, usedIds, session>>

\* Lines 1125-1134: the validation messages of Save Changes
UpdateErrors(fe) ==
    \/ fe.subject = ""
    \/ fe.event_type = "In-person" /\ fe.location = ""
    \/ ~(fe.manager_name # "" /\ fe.manager_email # "")

\* Lines 1143-1149: start and end in the zone chosen in the edit form
UpdateStartLocal(fe) ==
    IF fe.is_all_day
    THEN Combine(fe.start_date, 0, IANA_MAP(fe.tz_choice))
    ELSE Combine(fe.start_date, fe.start_time, IANA_MAP(fe.tz_choice))
UpdateEndLocal(fe) ==
    IF fe.is_all_day
    THEN Combine(Max2(fe.end_date, fe.start_date) + 1, 0, IANA_MAP(fe.tz_choice))
    ELSE Combine(fe.end_date, fe.end_time, IANA_MAP(fe.tz_choice))

\* Lines 1175-1186: the core PATCH (no body)
\* Mutant: the core PATCH also sends the body.
UpdatePatchPayloadWithBody(fe) ==
    LET rem == RemMinutesForGraph(fe.rem_mode, fe.reminder_minutes, fe.reminder_days)
    IN  [ subject |-> fe.subject,
          isAllDay |-> fe.is_all_day,
          start |-> GraphDatetimeObj(UpdateStartLocal(fe), TZ_MAP(fe.tz_choice)),
          end   |-> GraphDatetimeObj(UpdateEndLocal(fe), TZ_MAP(fe.tz_choice)),
          isReminderOn |-> rem > 0,
          reminderMinutesBeforeStart |-> rem,
          location |-> IF fe.event_type = "In-person" THEN fe.location ELSE "",
          body |-> [ctype |-> "html", content |-> << >>] ]
UpdatePatchPayload(fe) ==
    LET rem == RemMinutesForGraph(fe.rem_mode, fe.reminder_minutes, fe.reminder_days)
    IN  [ subject |-> fe.subject,
          isAllDay |-> fe.is_all_day,
          start |-> GraphDatetimeObj(UpdateStartLocal(fe), TZ_MAP(fe.tz_choice)),
          end   |-> GraphDatetimeObj(UpdateEndLocal(fe), TZ_MAP(fe.tz_choice)),
          isReminderOn |-> rem > 0,
          reminderMinutesBeforeStart |-> rem,
          location |-> IF fe.event_type = "In-person" THEN fe.location ELSE "" ]

\* Mutant: the PATCH also marks the time as busy.
PatchCoreBusy(ce, pp) ==
    [ce EXCEPT !.subject = pp.subject, !.isAllDay = pp.isAllDay,
               !.start = pp.start, !.end = pp.end,
               !.isReminderOn = pp.isReminderOn,
               !.reminderMinutesBeforeStart = pp.reminderMinutesBeforeStart,
               !.location = pp.location, !.showAs = "busy"]

\* PATCH /events/{id} with the core fields: only they change
PatchCore(ce, pp) ==
    [ce EXCEPT !.subject = pp.subject, !.isAllDay = pp.isAllDay,
               !.start = pp.start, !.end = pp.end,
               !.isReminderOn = pp.isReminderOn,
               !.reminderMinutesBeforeStart = pp.reminderMinutesBeforeStart,
               !.location = pp.location]

\* upsert_outlook_client_and_accreditation is called at line 1202 and is
\* defined nowhere in the file.  From the design: every client and
\* accreditation line is removed and one of each is put back before the
\* manager block; a failure returns False and leaves the body alone.
RECURSIVE DropClientAcc(_)
DropClientAcc(s) ==
    IF Len(s) >= 3 /\ s[1] = OpenTok("p") /\ s[2].k \in {"client", "acc"} /\ s[3] = CloseTok("p")
    THEN DropClientAcc(SubSeq(s, 4, Len(s)))
    ELSE IF s = << >> THEN << >>
    ELSE <<Head(s)>> \o DropClientAcc(Tail(s))
UpsertOutlookClientAndAccreditation(b, client_value, accreditation_required, metaOK) ==
    LET rest  == DropClientAcc(b.content)
        t     == IdxOf(rest, 1, "topen")
        m     == IdxOf(rest, 1, "mm")
        at    == IF t # 0 /\ m # 0 /\ t < m THEN t ELSE IF m # 0 THEN m ELSE Len(rest) + 1
        lines == (IF client_value # ""
                  THEN << OpenTok("p"), Tok("client", HtmlEscape(client_value)), CloseTok("p") >>
                  ELSE << >>)
                 \o << OpenTok("p"), Tok("acc", IF accreditation_required THEN "Yes" ELSE "No"),
                       CloseTok("p") >>
    IN  IF metaOK
        THEN [ok |-> TRUE,
              body |-> [ctype |-> "html",
                        content |-> SubSeq(rest, 1, at - 1) \o lines \o SubSeq(rest, at, Len(rest))]]
        ELSE [ok |-> FALSE, body |-> b]

\* Mutant: the row update also writes the link, as none.
UpdateRowUnlinking(ev, fe) ==
    [ev EXCEPT !.subject = fe.subject,
               !.meeting_manager_name = fe.manager_name,
               !.outlook_event_id = NULL]

\* Lines 1214-1230: the fields Save Changes writes to the row
UpdateRow(ev, fe) ==
    [ev EXCEPT
        !.subject = fe.subject,
        !.client = ev.client,
        !.start_dt_utc = ToUtc(UpdateStartLocal(fe)),
        !.end_dt_utc = ToUtc(UpdateEndLocal(fe)),
        !.timezone_display = IANA_MAP(fe.tz_choice),
        !.is_all_day = fe.is_all_day,
        !.location = OrNull(fe.location),
        !.event_type = IF fe.event_type = "Virtual" THEN "virtual" ELSE "in_person",
        !.virtual_provider = OrNull(fe.virtual_provider),
        !.virtual_link = OrNull(fe.virtual_link),
        !.meeting_manager_name = fe.manager_name,
        !.meeting_manager_email = fe.manager_email,
        !.reminder_minutes = RemMinutesForGraph(fe.rem_mode, fe.reminder_minutes, fe.reminder_days),
        !.accreditation_required = fe.accreditation_required]

\* upsert_custom_reminder: update the first custom_email row of the event,
\* insert one when there is none
UpsertCustomReminder(ns, event_id, notify_at_utc, payload) ==
    LET existing == {n \in ns : n.event_id = event_id /\ n.type = "custom_email"}
    IN  IF existing # {}
        THEN LET n0 == CHOOSE n \in existing : TRUE
             IN  (ns \ {n0}) \cup {[n0 EXCEPT !.notify_at_utc = notify_at_utc, !.payload = payload]}
        ELSE ns \cup {[ event_id |-> event_id, type |-> "custom_email", channel |-> "email",
                        notify_at_utc |-> notify_at_utc, payload |-> payload ]}

\* delete_missing_link_reminders
DeleteMissingLinkReminders(ns, event_id) ==
    {n \in ns : ~(n.event_id = event_id /\ n.type = "missing_link")}

\* Lines 1232-1247: the notifications Save Changes touches
UpdateNotifications(ns, id, ev, fe) ==
    LET ns1 == IF fe.rem_mode = "OnDate" /\ fe.reminder_datetime_local # NULL
               THEN UpsertCustomReminder(ns, id,
                        DueAt(fe.reminder_datetime_local, IANA_MAP(fe.tz_choice)),
                        [to |-> fe.manager_email, subject |-> fe.subject,
                         client |-> IF ev.client = NULL THEN "" ELSE ev.client])
               ELSE ns
    IN  IF fe.event_type = "Virtual" /\ fe.virtual_link \notin {NULL, ""}
        THEN DeleteMissingLinkReminders(ns1, id) ELSE ns1

\* Mutant: the row is updated first and the calendar after it.
\* The json of the PATCH of update_outlook_manager_block (lines 181-186)
ManagerBlockPatchPayload(new_html) == [body |-> new_html]

\* The PATCH requests a Save Changes issues, in order, each with the names of
\* the fields it sends: the core PATCH once the token is there (1189), the
\* PATCH of the manager block once its GET went through (181), the PATCH of
\* the client and accreditation lines
UpdatePatches(fe, new_html, tokenOK, coreOK, getOK, metaOK) ==
    (IF tokenOK
     THEN << [call |-> "graph_patch_core", fields |-> DOMAIN UpdatePatchPayload(fe)] >>
     ELSE << >>)
    \o (IF coreOK /\ getOK
        THEN << [call |-> "manager_block",
                 fields |-> DOMAIN ManagerBlockPatchPayload(new_html)] >>
        ELSE << >>)
    \o (IF coreOK /\ metaOK
        THEN << [call |-> "client_block", fields |-> {"body"}] >>
        ELSE << >>)
UpdateCallsStoreFirst(asked, tokenOK, coreOK) ==
    (IF coreOK THEN <<"events_update">> ELSE << >>)
    \o (IF asked THEN <<"graph_token">> ELSE << >>)
    \o (IF tokenOK THEN <<"graph_patch_core">> ELSE << >>)
    \o (IF coreOK THEN <<"manager_block", "client_block">> ELSE << >>)

\* The calls of a Save Changes in the order of lines 1172-1230: the token
\* request, the core PATCH, the two body refreshes, the events update.
\* Each call is reached only when the one before it did not raise.
UpdateCalls(asked, tokenOK, coreOK) ==
    (IF asked THEN <<"graph_token">> ELSE << >>)
    \o (IF tokenOK THEN <<"graph_patch_core">> ELSE << >>)
    \o (IF coreOK THEN <<"manager_block", "client_block", "events_update">> ELSE << >>)

\* The whole handling of a click on "Save Changes" (lines 1123-1264) for
\* the selected row id.  fe: the edit form; client_value: the client chosen
\* in the Create tab (line 1206 passes that variable); o: the outcomes of
\* the calls, [tokenOK, coreOK, getOK, patchOK, metaOK, store, notifOK].
\* Lines 1169-1247 are one suite under `if ev.get("outlook_event_id")`:
\* the PATCH, the two body refreshes, the row update and the notifications.
Update(id, fe, client_value, o) ==
    LET ev       == events[id]
        oid      == ev.outlook_event_id
        linked   == oid # NULL
        tokenOK  == linked /\ config.graph /\ o.tokenOK
        coreOK   == tokenOK /\ o.coreOK /\ oid \in DOMAIN cal
        cal1     == IF coreOK THEN [cal EXCEPT ![oid] = PatchCore(@, UpdatePatchPayload(fe))]
                    ELSE cal
        mgr      == IF coreOK
                    THEN UpdateOutlookManagerBlock(cal1[oid].body, oid, fe.manager_name,
                                                   o.getOK, o.patchOK)
                    ELSE [ok |-> FALSE, body |-> << >>]
        meta     == IF coreOK
                    THEN UpsertOutlookClientAndAccreditation(mgr.body, client_value,
                              fe.accreditation_required, o.metaOK)
                    ELSE [ok |-> FALSE, body |-> << >>]
        cal2     == IF coreOK THEN [cal1 EXCEPT ![oid].body = meta.body] ELSE cal
        written  == coreOK /\ o.store = "ok"
        notifies == (fe.rem_mode = "OnDate" /\ fe.reminder_datetime_local # NULL)
                    \/ (fe.event_type = "Virtual" /\ fe.virtual_link \notin {NULL, ""})
        notified == written /\ (o.notifOK \/ ~notifies)
        failed   == linked /\ ~notified
    IN
    IF UpdateErrors(fe)
        \/ (~fe.is_all_day /\ EndNotAfterStart(UpdateStartLocal(fe), UpdateEndLocal(fe)))
    THEN /\ last' = [op |-> "update", result |-> "rejected", row |-> id,
                     calls |-> << >>, msgs |-> {"error"}]
         /\ UNCHANGED <<events, nextId, notifs, cal, usedIds, session, entered>>
    ELSE /\ cal' = cal2
         /\ entered' = IF written
                       THEN [entered EXCEPT ![id] =
                               [is_all_day |-> fe.is_all_day, start_date |-> fe.start_date,
                                end_date |-> fe.end_date, tz_choice |-> fe.tz_choice]]
                       ELSE entered
         /\ events' = IF written THEN [events EXCEPT ![id] = UpdateRow(ev, fe)] ELSE events
         /\ notifs' = IF notified THEN UpdateNotifications(notifs, id, ev, fe) ELSE notifs
         /\ last' = [ op |-> "update", result |-> "done", row |-> id,
                      calls |-> UpdateCalls(linked /\ config.graph, tokenOK, coreOK),
                      patches |-> UpdatePatches(fe,
                                      IF coreOK
                                      THEN NewManagerBody(cal1[oid].body, oid, fe.manager_name)
                                      ELSE << >>,
                                      tokenOK, coreOK, o.getOK, o.metaOK),
                      msgs |-> (IF coreOK /\ ~mgr.ok THEN {"warning_manager"} ELSE {})
                               \cup (IF coreOK /\ ~meta.ok THEN {"warning_client"} ELSE {})
                               \cup (IF failed THEN {"error"} ELSE {"success"}),
                      form |-> fe,
                      linked |-> linked,
                      storeFailed |-> o.store # "ok",
                      coreFailed |-> tokenOK /\ ~coreOK,
                      written |-> written ]
         /\ UNCHANGED <<nextId, usedIds, session>>

----------------------------------------------------------------------------
(* Outlook -> app: delta mapping, bulk sync, per-event refresh             *)

\* The start or end of an event as GET /events/{id} and calendarView/delta
\* return it.  The requests carry no Prefer: outlook.timezone header (lines
\* 382 and 395), so the calendar answers in UTC.  For an all-day event the
\* calendar answers with midnight of the date, either kept as it is or
\* taken as the instant of that midnight in the zone of the event (rep).
GraphTimeOf(dt_obj, is_all_day, rep) ==
    LET d    == dt_obj.dateTime
        wall == d.date * DayMinutes + (IF IsDatetime(d) THEN d.time ELSE 0)
        inst == IF is_all_day /\ rep = "midnight" THEN wall
                ELSE wall - WallOffset(dt_obj.timeZone, wall)
    IN  [ dateTime |-> [date |-> inst \div DayMinutes, time |-> inst % DayMinutes],
          timeZone |-> "UTC" ]

\* The JSON of a calendar event (the keys the mapping reads)
GraphView(ce, id, rep) ==
    [ id |-> id, removed |-> FALSE,
      subject |-> ce.subject,
      isAllDay |-> ce.isAllDay,
      start |-> GraphTimeOf(ce.start, ce.isAllDay, rep),
      end |-> GraphTimeOf(ce.end, ce.isAllDay, rep),
      location |-> ce.location,
      joinUrl |-> ce.joinUrl ]

\* An event of the mailbox the app did not create
ExternalId == "x1"
ExternalEvent ==
    [ id |-> ExternalId, removed |-> FALSE, subject |-> "External", isAllDay |-> FALSE,
      start |-> [dateTime |-> [date |-> 1, time |-> 600], timeZone |-> "UTC"],
      end   |-> [dateTime |-> [date |-> 1, time |-> 660], timeZone |-> "UTC"],
      location |-> "", joinUrl |-> NULL ]

\* A record of a delta page: an event of the calendar, a removal
\* ("@removed", nothing but the id), or an event the app did not create.
DeltaRecord(d, rep) ==
    CASE d.kind = "event"    -> GraphView(cal[d.id], d.id, rep)
      [] d.kind = "removed"  -> [ExternalEvent EXCEPT !.id = d.id, !.removed = TRUE,
                                   !.subject = "", !.start = EmptyFn, !.end = EmptyFn]
      [] d.kind = "external" -> ExternalEvent

\* _parse_graph_dt_to_utc: None for a missing dict or dateTime; an offset
\* written in the timestamp (a "Z" is the offset 0) is converted, a naive
\* timestamp is taken as UTC, and the timeZone key is not read.
ParseGraphDtToUtc(dt_obj) ==
    IF "dateTime" \notin DOMAIN dt_obj
    THEN [ok |-> FALSE, value |-> 0]
    ELSE LET d == dt_obj.dateTime
         IN  [ok |-> TRUE,
              value |-> d.date * DayMinutes + d.time
                        - (IF "offset" \in DOMAIN d THEN d.offset ELSE 0)]

\* Mutant: the mapping also takes the provider from the online meeting.
MapAlsoWritesProvider(g) ==
    [is_all_day |-> g.isAllDay, virtual_provider |-> "teams"]

\* map_graph_event_to_row_updates: the dict of updates, a key present only
\* when the code sets it
MapGraphEventToRowUpdates(g) ==
    LET start_utc == ParseGraphDtToUtc(g.start)
        end_utc   == ParseGraphDtToUtc(g.end)
    IN  (IF g.subject # "" THEN [subject |-> g.subject] ELSE EmptyFn)
        @@ [is_all_day |-> g.isAllDay]
        @@ (IF start_utc.ok THEN [start_dt_utc |-> start_utc.value] ELSE EmptyFn)
        @@ (IF end_utc.ok THEN [end_dt_utc |-> end_utc.value] ELSE EmptyFn)
        @@ (IF g.location # "" THEN [location |-> g.location] ELSE EmptyFn)
        @@ (IF g.joinUrl # NULL THEN [virtual_link |-> g.joinUrl] ELSE EmptyFn)

\* supabase.table("events").update(updates).eq("id", row_id): the columns
\* named in updates change, the others keep their value (updated_at, which
\* both callers add, is not a column of the model)
ApplyUpdates(row, updates) ==
    [k \in DOMAIN row |-> IF k \in DOMAIN updates THEN updates[k] ELSE row[k]]

\* Mutant: a record marked as removed deletes the local rows of that id.
SyncRecordsDeleting(recs, st, rep, o) ==
    LET gone == { recs[i].id : i \in { j \in 1..Len(recs) : recs[j].kind = "removed" } }
        kept == { r \in DOMAIN st.events : st.events[r].outlook_event_id \notin gone }
    IN  [st EXCEPT !.events = [r \in kept |-> st.events[r]]]

\* Lines 1484-1502: the records of one page, in order.  st is the state of
\* the pass: [events, calls, total_updates, touched, skipped, last_delta, ok].
RECURSIVE SyncRecords(_, _, _, _)
SyncRecords(recs, st, rep, o) ==
    IF recs = << >> \/ ~st.ok THEN st
    ELSE LET g    == DeltaRecord(Head(recs), rep)
             rows == {r \in DOMAIN st.events : st.events[r].outlook_event_id = g.id}
         IN  IF g.removed
             THEN SyncRecords(Tail(recs), [st EXCEPT !.skipped = @ \cup {g.id}], rep, o)
             ELSE IF rows = {}
             THEN SyncRecords(Tail(recs), [st EXCEPT !.calls = @ \o <<"events_select">>], rep, o)
             ELSE LET row_id  == CHOOSE r \in rows : TRUE
                      updates == MapGraphEventToRowUpdates(g)
                  IN  IF o.fail = "update" /\ o.at = st.total_updates + 1
                      THEN [st EXCEPT !.ok = FALSE,
                                      !.calls = @ \o <<"events_select", "events_update">>]
                      ELSE SyncRecords(Tail(recs),
                             [st EXCEPT
                                 !.events = [@ EXCEPT ![row_id] = ApplyUpdates(@, updates)],
                                 !.calls = @ \o <<"events_select", "events_update">>,
                                 !.total_updates = @ + 1,
                                 !.touched = @ \cup {[row |-> row_id, from |-> g.id]}],
                             rep, o)

\* Mutant: the first request always carries the window.
FirstFetchWindowed(dlink) == "delta_window"

\* The first request of graph_delta_events: the stored link as it is
\* (line 398), or calendarView/delta with startDateTime and endDateTime,
\* now - 180 days and now + 365 days (lines 1473-1476, 409-419)
FirstFetch(dlink) == IF dlink # NULL THEN "delta_cursor" ELSE "delta_window"

\* graph_delta_events driven by the loop of lines 1482-1503: page k is
\* fetched, its records are handled, then page k + 1 is fetched by its
\* next link alone.
RECURSIVE SyncPages(_, _, _, _, _, _)
SyncPages(pages, k, dlink, st, rep, o) ==
    IF k > Len(pages) \/ ~st.ok THEN st
    ELSE LET fetch == IF k > 1 THEN "delta_next" ELSE FirstFetch(dlink)
             st0   == [st EXCEPT !.calls = @ \o <<fetch>>]
         IN  IF o.fail = "fetch" /\ o.at = k
             THEN [st0 EXCEPT !.ok = FALSE]
             ELSE LET st1 == SyncRecords(pages[k].value, st0, rep, o)
                  IN  SyncPages(pages, k + 1, dlink,
                                [st1 EXCEPT !.last_delta =
                                    IF pages[k].deltaLink # NULL THEN pages[k].deltaLink ELSE @],
                                rep, o)

\* Mutant: the link is written before the pages are fetched.
BulkSyncCallsSaveFirst(ready, token, fetched, saves) ==
    (IF ready THEN <<"graph_token">> ELSE << >>)
    \o (IF token THEN <<"get_delta_link">> ELSE << >>)
    \o (IF saves THEN <<"save_delta_link">> ELSE << >>)
    \o fetched

\* The calls of a pass in the order of lines 1469-1506: the token, the
\* read of the stored link, the pages and their rows, then the write of
\* the new link
BulkSyncCalls(ready, token, fetched, saves) ==
    (IF ready THEN <<"graph_token">> ELSE << >>)
    \o (IF token THEN <<"get_delta_link">> ELSE << >>)
    \o fetched
    \o (IF saves THEN <<"save_delta_link">> ELSE << >>)

\* Mutant: a pass that fails forgets the stored link.
CursorAfterPassForgetful(st, o) ==
    IF st.ok /\ st.last_delta # NULL /\ o.fail # "save" THEN st.last_delta ELSE NULL

\* The stored link after the pass: save_delta_link runs when the loop ended
\* without an exception and a page carried a delta link (lines 1505-1506)
CursorAfterPass(st, o) ==
    IF st.ok /\ st.last_delta # NULL /\ o.fail # "save" THEN st.last_delta ELSE cursor

\* The whole handling of a click on "Bulk Sync Now" (lines 1462-1509).
\* pages: what the calendar answers, page after page; rep: how it writes
\* all-day times; o: the call that fails, if one does.
BulkSync(pages, rep, o) ==
    LET ready == config.graph /\ config.supabase
        token == ready /\ o.fail # "token"
        read  == token /\ o.fail # "get_cursor"
        dlink == cursor
        st0   == [events |-> events, calls |-> << >>, total_updates |-> 0,
                  touched |-> {}, skipped |-> {}, last_delta |-> NULL, ok |-> TRUE]
    IN  \E st \in {IF read THEN SyncPages(pages, 1, dlink, st0, rep, o)
                   ELSE [st0 EXCEPT !.ok = FALSE]} :
        LET saves == st.ok /\ st.last_delta # NULL
            saved == saves /\ o.fail # "save"
        IN
        /\ events' = st.events
        /\ cursor' = CursorAfterPass(st, o)
        /\ last' = [ op |-> "bulk_sync", result |-> "done",
                     calls |-> BulkSyncCalls(ready, token, st.calls, saves),
                     msgs |-> IF st.ok /\ (saved \/ ~saves) THEN {"success"} ELSE {"error"},
                     total_updates |-> st.total_updates,
                     touched |-> st.touched,
                     skipped |-> st.skipped ]
        /\ UNCHANGED <<nextId, notifs, cal, usedIds, session, entered>>

\* len(ev_id_raw) < 40: the ids the calendar hands out are long, Truncated
\* is a piece of one
Truncated == "e1-cut"
LooksTruncated(ev_id_raw) == ev_id_raw = Truncated

\* The whole handling of a click on "Refresh Selected Event" (lines
\* 1518-1556) with row id selected in the Edit tab.  typed: the content of
\* the id field; o: [tokenOK, getOK, store].
Refresh(id, typed, rep, o) ==
    LET ev      == events[id]
        ready   == typed # "" /\ ~LooksTruncated(typed) /\ config.graph /\ config.supabase
        token   == ready /\ o.tokenOK
        got     == token /\ o.getOK /\ typed \in DOMAIN cal
        rows    == {r \in DOMAIN events : events[r].outlook_event_id = typed}
        row_id  == IF rows # {} THEN CHOOSE r \in rows : TRUE ELSE id
        updates == MapGraphEventToRowUpdates(GraphView(cal[typed], typed, rep))
        written == got /\ o.store = "ok"
    IN  /\ events' = IF written THEN [events EXCEPT ![row_id] = ApplyUpdates(@, updates)]
                     ELSE events
        /\ last' = [ op |-> "refresh", result |-> "done",
                     calls |-> (IF ready THEN <<"graph_token">> ELSE << >>)
                               \o (IF token THEN <<"graph_get">> ELSE << >>)
                               \o (IF got THEN <<"events_select", "events_update">> ELSE << >>),
                     msgs |-> IF typed = "" \/ LooksTruncated(typed) THEN {"warning"}
                              ELSE IF written THEN {"success"} ELSE {"error"},
                     total_updates |-> IF written THEN 1 ELSE 0,
                     touched |-> IF written THEN {[row |-> row_id, from |-> typed]} ELSE {} ]
        /\ UNCHANGED <<nextId, notifs, cal, usedIds, session, entered, cursor>>

----------------------------------------------------------------------------
(* The app as a state machine: one action per button, plus what happens    *)
(* to the calendar in Outlook itself                                       *)

MaxCreates == 1
MaxDay     == 2
MaxPages   == 2

Days == 1..MaxDay

\* What the Create form holds when it is submitted
BaseForm ==
    [ subject |-> "Kickoff", client_value |-> "R&D", tz_choice |-> "Eastern",
      is_all_day |-> FALSE, start_date |-> 1, end_date |-> 1,
      start_time |-> 540, end_time |-> 600,
      event_type |-> "In-person", location |-> "L1",
      virtual_provider |-> NULL, virtual_link |-> NULL,
      accreditation_required |-> FALSE,
      manager_sel |-> "Ann", manager_name |-> "Ann", manager_email |-> "ann@x",
      rem_mode |-> "Minutes", reminder_minutes |-> 30, reminder_days |-> 1,
      reminder_datetime_local |-> NULL ]

\* A second event of another name on another day
ReviewForm == [BaseForm EXCEPT !.subject = "Review", !.start_date = 2, !.end_date = 2]

\* The base form, and forms that differ from it: no title; a Teams meeting
\* with no link yet; all-day events
CreateForms ==
    { BaseForm,
      [BaseForm EXCEPT !.subject = ""],
      [BaseForm EXCEPT !.event_type = "Virtual", !.location = "",
                       !.virtual_provider = "teams", !.virtual_link = ""] }
    \cup { [BaseForm EXCEPT !.is_all_day = TRUE, !.start_date = s, !.end_date = e,
                            !.start_time = 0, !.end_time = 0] : s \in Days, e \in Days }

\* Outcomes of the calls of Create: a call is only made when the calls
\* before it went through
CreateOutcomes ==
    { o \in [tokenOK : BOOLEAN, createOK : BOOLEAN, patchOK : BOOLEAN,
             store : {"ok", "nodata", "fail"}, notifOK : BOOLEAN] :
        /\ ~o.tokenOK => o.createOK
        /\ ~(o.tokenOK /\ o.createOK) => o.patchOK
        /\ o.store = "fail" => o.notifOK }

\* Timed forms at the edges: an end at the start, an end before the start,
\* a start in the hour the clocks skip with an end after it
EdgeForms ==
    { [BaseForm EXCEPT !.end_time = BaseForm.start_time],
      [BaseForm EXCEPT !.end_time = BaseForm.start_time - 30],
      [BaseForm EXCEPT !.start_date = SpringForward.date, !.end_date = SpringForward.date,
                       !.start_time = SpringForward.time + 30,
                       !.end_time = SpringForward.time + 75] }

\* Forms that ask for notifications: a reminder on a date, a Zoom meeting
\* with no link yet
NotifyForms ==
    { [BaseForm EXCEPT !.rem_mode = "OnDate", !.reminder_datetime_local = "day 1 08:00"],
      [BaseForm EXCEPT !.event_type = "Virtual", !.location = "",
                       !.virtual_provider = "zoom", !.virtual_link = ""] }

\* A click on "Create Event" with one of forms
CreateSubmit(forms) ==
    /\ nextId <= MaxCreates
    /\ Cardinality(usedIds) < MaxCreates
    /\ \E f \in forms, o \in CreateOutcomes : Create(f, o)
    /\ UNCHANGED <<config, cursor, body, start, blkArgs, applied>>

\* Virtual events with their link, one for each platform of the selector
VirtualForms ==
    { [BaseForm EXCEPT !.event_type = "Virtual", !.location = "",
                       !.virtual_provider = p, !.virtual_link = "https://meet"] :
        p \in {"teams", "zoom", "other"} }

\* The limits of the two number inputs of the reminder (lines 568, 574)
MinutesMax == 10080
DaysMax    == 365

\* Reminders at the ends of what the inputs allow, and one on a date
ReminderForms ==
    { [BaseForm EXCEPT !.rem_mode = "Minutes", !.reminder_minutes = m] : m \in {0, MinutesMax} }
    \cup { [BaseForm EXCEPT !.rem_mode = "Days", !.reminder_days = d] : d \in {0, 1, DaysMax} }
    \cup { [BaseForm EXCEPT !.rem_mode = "OnDate", !.reminder_datetime_local = "day 1 08:00"] }

\* The forms each Create action of the specifications below submits
EdgeCreateForms   == {BaseForm} \cup EdgeForms
NotifyCreateForms == CreateForms \cup NotifyForms
KindCreateForms   == {BaseForm} \cup VirtualForms
\* Two virtual events, each with the link left blank and with the link
\* typed in
ConfirmForms      ==
    { [g EXCEPT !.event_type = "Virtual", !.location = "",
                !.virtual_provider = "zoom", !.virtual_link = l] :
        g \in {BaseForm, ReviewForm}, l \in {"", "https://meet"} }
\* Every reminder, every platform, and an all-day event
PayloadForms      ==
    ReminderForms \cup VirtualForms
    \cup { [BaseForm EXCEPT !.is_all_day = TRUE, !.start_date = 1, !.end_date = 1,
                            !.start_time = 0, !.end_time = 0] }

CreateEvent == CreateSubmit(CreateForms)
CreateBaseEvent == CreateSubmit({BaseForm})
CreateVirtualEvent == CreateSubmit(KindCreateForms)
CreateConfirmEvent == CreateSubmit(ConfirmForms)
CreateEdgeEvent == CreateSubmit(EdgeCreateForms)
CreateNotifyEvent == CreateSubmit(NotifyCreateForms)

\* What the edit form holds when Save Changes is clicked: the seeded
\* values, as they are or with some of them changed
UpdateForms(ev) ==
    { EditSeed(ev),
      [EditSeed(ev) EXCEPT !.subject = "Renamed", !.manager_name = "Bob"],
      [EditSeed(ev) EXCEPT !.subject = ""] }

\* Edits that bear on notifications: a reminder on a date; the event made
\* virtual with no link, given a link, or made in-person again
NotifyEdits(ev) ==
    { EditSeed(ev),
      [EditSeed(ev) EXCEPT !.rem_mode = "OnDate", !.reminder_datetime_local = "day 2 10:00"],
      IF ev.event_type = "in_person"
      THEN [EditSeed(ev) EXCEPT !.event_type = "Virtual", !.location = "",
                                !.virtual_provider = "zoom", !.virtual_link = ""]
      ELSE [EditSeed(ev) EXCEPT !.virtual_link = "https://meet"],
      IF ev.event_type = "in_person"
      THEN EditSeed(ev)
      ELSE [EditSeed(ev) EXCEPT !.event_type = "In-person", !.location = "L1",
                                !.virtual_provider = NULL, !.virtual_link = NULL] }

\* Edits of the reminder (the days input of the edit form starts at 1,
\* line 1103)
ReminderEdits(ev) ==
    { EditSeed(ev),
      [EditSeed(ev) EXCEPT !.rem_mode = "Minutes", !.reminder_minutes = 0],
      [EditSeed(ev) EXCEPT !.rem_mode = "Minutes", !.reminder_minutes = MinutesMax],
      [EditSeed(ev) EXCEPT !.rem_mode = "Days", !.reminder_days = 1],
      [EditSeed(ev) EXCEPT !.rem_mode = "Days", !.reminder_days = DaysMax],
      [EditSeed(ev) EXCEPT !.rem_mode = "OnDate", !.reminder_datetime_local = "day 2 10:00"] }

\* Edits of the manager alone
ManagerEdits(ev) ==
    { [EditSeed(ev) EXCEPT !.manager_name = "Bob"],
      [EditSeed(ev) EXCEPT !.manager_name = "Cy"] }

\* What the client selector of the Create tab holds while the Edit tab is
\* used (line 599; line 1206 passes it on)
CreateTabClients == {"R&D", "Acme"}

UpdateOutcomes ==
    { o \in [tokenOK : BOOLEAN, coreOK : BOOLEAN, getOK : BOOLEAN, patchOK : BOOLEAN,
             metaOK : BOOLEAN, store : {"ok", "fail"}, notifOK : BOOLEAN] :
        /\ ~o.tokenOK => o.coreOK
        /\ ~(o.tokenOK /\ o.coreOK) => o.getOK /\ o.metaOK /\ o.store = "ok"
        /\ ~o.getOK => o.patchOK
        /\ o.store # "ok" => o.notifOK }

\* A click on "Save Changes" with one of the edits of a kind, the client
\* selector of the Create tab on one of clients
SaveSubmit(kind, clients) ==
    /\ EditTabOpen
    /\ \E id \in DOMAIN events :
         \E fe \in (CASE kind = "notify"  -> NotifyEdits(events[id])
                      [] kind = "manager" -> ManagerEdits(events[id])
                      [] kind = "reminder" -> ReminderEdits(events[id])
                      [] OTHER            -> UpdateForms(events[id])),
            client_value \in clients, o \in UpdateOutcomes :
            Update(id, fe, client_value, o)
    /\ UNCHANGED <<config, cursor, body, start, blkArgs, applied>>

SaveChanges == SaveSubmit("general", {"R&D"})
SaveNotifyChanges == SaveSubmit("notify", {"R&D"})
SaveManagerChanges == SaveSubmit("manager", CreateTabClients)
SaveRename == SaveSubmit("manager", {"R&D"})
SaveReminderChanges == SaveSubmit("reminder", {"R&D"})

DeleteOutcomes ==
    { o \in [tokenOK : BOOLEAN, deleteOK : BOOLEAN, store : {"ok", "fail"}] :
        ~o.tokenOK => o.deleteOK /\ o.store = "ok" }

DeleteEvent ==
    /\ EditTabOpen
    /\ \E id \in DOMAIN events, o \in DeleteOutcomes : Delete(id, o)
    /\ UNCHANGED <<config, cursor, body, start, blkArgs, applied>>

\* What a delta request can answer: events of the calendar, removals of
\* events that are gone, an event the app did not create
DeltaItems ==
    { [kind |-> "event", id |-> i] : i \in DOMAIN cal }
    \cup { [kind |-> "removed", id |-> i] : i \in usedIds \ DOMAIN cal }
    \cup { [kind |-> "external", id |-> ExternalId] }

\* The records of a page: none, one of the app's events, or an event the
\* app did not create followed by one of the app's
PageValues ==
    { << >> } \cup { <<a>> : a \in DeltaItems \ {[kind |-> "external", id |-> ExternalId]} }
    \cup { << [kind |-> "external", id |-> ExternalId], a >> :
             a \in DeltaItems \ {[kind |-> "external", id |-> ExternalId]} }

\* The delta link the calendar hands out at the end of a pass
NewDeltaLink == IF cursor = "delta-A" THEN "delta-B" ELSE "delta-A"

\* The pages of a pass: every page but the last carries a next link, the
\* last one carries the delta link (or, dl = NULL, nothing)
DeltaPasses ==
    { [k \in 1..Len(vs) |-> [value |-> vs[k],
                             deltaLink |-> IF k = Len(vs) THEN dl ELSE NULL]] :
        vs \in UNION { [1..n -> PageValues] : n \in 1..MaxPages },
        dl \in {NULL, NewDeltaLink} }

\* The call of a pass that fails, if one does: the token request, the read
\* of the stored link, the fetch of page k, the k-th row update, the write
\* of the new link
EarlyFailures == { [fail |-> "token", at |-> 0], [fail |-> "get_cursor", at |-> 0] }
PassOutcomes(pages) ==
    LET evs == { <<k, i>> \in (1..Len(pages)) \X (1..2) :
                   i <= Len(pages[k].value) /\ pages[k].value[i].kind = "event" }
    IN  { [fail |-> "none", at |-> 0] }
        \cup (IF pages[Len(pages)].deltaLink # NULL THEN {[fail |-> "save", at |-> 0]} ELSE {})
        \cup { [fail |-> "fetch", at |-> k] : k \in 1..Len(pages) }
        \cup { [fail |-> "update", at |-> k] : k \in 1..Cardinality(evs) }

\* How the calendar writes the times of an all-day event
AllDayReps(pages) ==
    IF \E k \in 1..Len(pages) : \E i \in 1..Len(pages[k].value) :
          pages[k].value[i].kind = "event" /\ cal[pages[k].value[i].id].isAllDay
    THEN {"midnight", "instant"} ELSE {"midnight"}

EmptyPass == << [value |-> << >>, deltaLink |-> NULL] >>

BulkSyncNow ==
    /\ EditTabOpen
    /\ \/ \E o \in EarlyFailures : BulkSync(EmptyPass, "midnight", o)
       \/ \E pages \in DeltaPasses :
            \E rep \in AllDayReps(pages), o \in PassOutcomes(pages) : BulkSync(pages, rep, o)
    /\ UNCHANGED <<config, body, start, blkArgs, applied>>

\* A pass whose answer fits one page
SinglePagePasses ==
    { << [value |-> v, deltaLink |-> dl] >> : v \in PageValues, dl \in {NULL, NewDeltaLink} }

BulkSyncOnePage ==
    /\ EditTabOpen
    /\ \E pages \in SinglePagePasses :
         \E rep \in AllDayReps(pages), o \in PassOutcomes(pages) : BulkSync(pages, rep, o)
    /\ UNCHANGED <<config, body, start, blkArgs, applied>>

RefreshOutcomes ==
    { o \in [tokenOK : BOOLEAN, getOK : BOOLEAN, store : {"ok", "fail"}] :
        /\ ~o.tokenOK => o.getOK
        /\ ~(o.tokenOK /\ o.getOK) => o.store = "ok" }

RefreshSelectedEvent ==
    /\ EditTabOpen
    /\ \E id \in DOMAIN events, typed \in {"", Truncated} \cup usedIds :
         \E rep \in IF typed \in DOMAIN cal /\ cal[typed].isAllDay
                    THEN {"midnight", "instant"} ELSE {"midnight"},
            o \in IF typed \in {"", Truncated} THEN {[tokenOK |-> TRUE, getOK |-> TRUE, store |-> "ok"]}
                  ELSE RefreshOutcomes :
            Refresh(id, typed, rep, o)
    /\ UNCHANGED <<config, body, start, blkArgs, applied>>

\* Somebody renames an event in Outlook
OutlookEdit ==
    /\ \E i \in DOMAIN cal :
         /\ cal[i].subject # "Moved"
         /\ cal' = [cal EXCEPT ![i].subject = "Moved"]
    /\ last' = [op |-> "outlook_edit"]
    /\ UNCHANGED <<events, nextId, notifs, usedIds, config, session, cursor, entered,
                   body, start, blkArgs, applied>>

\* Somebody deletes an event in Outlook
OutlookRemove ==
    /\ \E i \in DOMAIN cal : cal' = GraphDeleteEvent(cal, i)
    /\ last' = [op |-> "outlook_remove"]
    /\ UNCHANGED <<events, nextId, notifs, usedIds, config, session, cursor, entered,
                   body, start, blkArgs, applied>>

Init ==
    /\ InitStores
    /\ config \in [graph : BOOLEAN, supabase : BOOLEAN]
    /\ start = [ctype |-> "html", segs |-> << >>]
    /\ body = [ctype |-> "html", content |-> << >>]
    /\ blkArgs = [name |-> "R&D", id |-> "e1"]
    /\ applied = 0

\* Intake and editing: the Create tab, the Edit tab, and events vanishing
\* from the calendar
Next ==
    \/ CreateEvent
    \/ SaveChanges
    \/ DeleteEvent
    \/ OutlookRemove

Spec == Init /\ [][Next]_vars

\* The Create tab, and Delete making room: the part of the app that
\* inserts and removes rows
NextCreate ==
    \/ CreateEvent
    \/ CreateEdgeEvent
    \/ DeleteEvent

SpecCreate == Init /\ [][NextCreate]_vars

\* Notifications: the forms and edits that ask for them or resolve them
NextNotify ==
    \/ CreateNotifyEvent
    \/ SaveNotifyChanges
    \/ DeleteEvent

SpecNotify == Init /\ [][NextNotify]_vars

\* The manager block of a linked event under edits of the manager
NextManager ==
    \/ CreateEvent
    \/ SaveManagerChanges

SpecManager == Init /\ [][NextManager]_vars

\* One form through the three handlers of a row: created, edited, deleted
NextEdit ==
    \/ CreateBaseEvent
    \/ SaveRename
    \/ DeleteEvent

SpecEdit == Init /\ [][NextEdit]_vars

\* The state a Create of one of the payload forms leaves behind on an empty
\* store when every call goes through (lines 665-848)
InitCreated ==
    \E f \in PayloadForms :
        LET b == ReplacePlaceholder(CombinedBody(f), "e1")
            t == [is_all_day |-> f.is_all_day, start_date |-> f.start_date,
                  end_date |-> f.end_date, tz_choice |-> f.tz_choice]
        IN  /\ events = (1 :> CreateRow(f, "e1", b))
            /\ nextId = 2
            /\ notifs = CreateNotifications(f, 1, TRUE)
            /\ cal = ("e1" :> [CalEventOf(CreatePayload(f)) EXCEPT
                                  !.body = [ctype |-> "html", content |-> b]])
            /\ usedIds = {"e1"}
            /\ session = CreateTabSession([confirm_no_link |-> FALSE,
                                           prev_event_type_create |-> NULL], f.event_type)
            /\ last = [ op |-> "create", result |-> "done",
                        calls |-> <<"graph_token", "graph_create", "graph_patch_body",
                                    "events_insert">>,
                        msgs |-> {"success"}, entered |-> t, payload |-> CreatePayload(f),
                        storeFailed |-> FALSE, linked |-> TRUE, patched |-> TRUE,
                        notifLost |-> FALSE, event_type |-> f.event_type,
                        virtual_link |-> f.virtual_link, form |-> f, row |-> 1 ]
            /\ cursor = NULL
            /\ entered = (1 :> t)
            /\ config = [graph |-> TRUE, supabase |-> TRUE]
            /\ start = [ctype |-> "html", segs |-> << >>]
            /\ body = [ctype |-> "html", content |-> << >>]
            /\ blkArgs = [name |-> "R&D", id |-> "e1"]
            /\ applied = 0

\* The event created, its reminder edited
NextPayload == SaveReminderChanges

SpecPayload == InitCreated /\ [][NextPayload]_vars

\* In-person and virtual events with their links, edited in the app and
\* pulled back from the calendar
NextKind ==
    \/ CreateVirtualEvent
    \/ SaveChanges
    \/ BulkSyncNow
    \/ RefreshSelectedEvent

SpecKind == Init /\ [][NextKind]_vars

\* A store two Create submissions of the base form have filled, both events
\* made in the calendar, the second one since deleted in Outlook
\* Timestamps a calendar record can carry: a wall clock with the Windows
\* name of a zone (the example of the docstring, line 436), a wall clock with
\* its offset written out, and a wall clock alone
StampTimes == {0, 540, 1380}
GraphStamps ==
    { [dateTime |-> [date |-> d, time |-> t], timeZone |-> z] :
        d \in 1..2, t \in StampTimes,
        z \in {"UTC", "Eastern Standard Time", "Pacific Standard Time"} }
    \cup { [dateTime |-> [date |-> d, time |-> t, offset |-> o]] :
             d \in 1..2, t \in StampTimes, o \in {0, -300} }
    \cup { [dateTime |-> [date |-> d, time |-> t]] : d \in 1..2, t \in StampTimes }

\* map_graph_event_to_row_updates applied to a record with two of the
\* timestamps (lines 467-471)
MapRecord ==
    /\ \E s \in GraphStamps, e \in GraphStamps :
         LET g == [ExternalEvent EXCEPT !.start = s, !.end = e]
         IN  last' = [op |-> "map", result |-> "done", g |-> g,
                      updates |-> MapGraphEventToRowUpdates(g)]
    /\ UNCHANGED <<events, nextId, notifs, cal, usedIds, config, session, cursor, entered,
                   start, body, blkArgs, applied>>

NextStamp == MapRecord

SpecStamp == Init /\ [][NextStamp]_vars
InitSynced ==
    LET f     == BaseForm
        b(id) == ReplacePlaceholder(CombinedBody(f), id)
        t     == [is_all_day |-> f.is_all_day, start_date |-> f.start_date,
                  end_date |-> f.end_date, tz_choice |-> f.tz_choice]
    IN  /\ events = (1 :> CreateRow(f, "e1", b("e1"))) @@ (2 :> CreateRow(f, "e2", b("e2")))
        /\ nextId = 3
        /\ notifs = CreateNotifications(f, 1, TRUE) \cup CreateNotifications(f, 2, TRUE)
        /\ cal = ("e1" :> [CalEventOf(CreatePayload(f)) EXCEPT
                              !.body = [ctype |-> "html", content |-> b("e1")]])
        /\ usedIds = {"e1", "e2"}
        /\ session = CreateTabSession([confirm_no_link |-> FALSE, prev_event_type_create |-> NULL],
                                      f.event_type)
        /\ last = [op |-> "none"]
        /\ cursor = NULL
        /\ entered = (1 :> t) @@ (2 :> t)
        /\ config \in [graph : BOOLEAN, supabase : {TRUE}]
        /\ start = [ctype |-> "html", segs |-> << >>]
        /\ body = [ctype |-> "html", content |-> << >>]
        /\ blkArgs = [name |-> "R&D", id |-> "e1"]
        /\ applied = 0

\* The sidebar tools on that store
NextPull ==
    \/ BulkSyncNow
    \/ RefreshSelectedEvent
    \/ OutlookEdit

\* The state after two Creates with every call succeeding and a Delete of
\* the second row during which the calendar refused its delete (lines
\* 984-990: a warning, and the row goes all the same): the event e2 is
\* still in the calendar and no row is linked to it
InitOrphan ==
    LET f     == BaseForm
        b(g, id) == ReplacePlaceholder(CombinedBody(g), id)
        t     == [is_all_day |-> f.is_all_day, start_date |-> f.start_date,
                  end_date |-> f.end_date, tz_choice |-> f.tz_choice]
        s0    == [confirm_no_link |-> FALSE, prev_event_type_create |-> NULL]
    IN  /\ events = (1 :> CreateRow(f, "e1", b(f, "e1")))
        /\ nextId = 3
        /\ notifs = CreateNotifications(f, 1, TRUE)
        /\ cal = ("e1" :> [CalEventOf(CreatePayload(f)) EXCEPT
                              !.body = [ctype |-> "html", content |-> b(f, "e1")]])
                  @@ ("e2" :> [CalEventOf(CreatePayload(ReviewForm)) EXCEPT
                                 !.body = [ctype |-> "html", content |-> b(ReviewForm, "e2")]])
        /\ usedIds = {"e1", "e2"}
        /\ session = CreateTabSession(CreateTabSession(s0, f.event_type),
                                      ReviewForm.event_type)
        /\ last = [ op |-> "delete", result |-> "done", row |-> 2,
                    calls |-> <<"graph_token", "graph_delete", "events_delete">>,
                    msgs |-> {"warning", "success"},
                    tokenFailed |-> FALSE, deleteFailed |-> TRUE, storeFailed |-> FALSE ]
        /\ cursor = NULL
        /\ entered = (1 :> t)
        /\ config = [graph |-> TRUE, supabase |-> TRUE]
        /\ start = [ctype |-> "html", segs |-> << >>]
        /\ body = [ctype |-> "html", content |-> << >>]
        /\ blkArgs = [name |-> "R&D", id |-> "e1"]
        /\ applied = 0

\* Refreshes and sync passes while the calendar holds an event of the app
\* that has lost its row
NextOrphan ==
    \/ BulkSyncNow
    \/ RefreshSelectedEvent
    \/ OutlookEdit

SpecOrphan == InitOrphan /\ [][NextOrphan]_vars
\* The Create tab alone, with virtual events submitted one after the other
NextConfirm == CreateConfirmEvent

SpecConfirm == Init /\ [][NextConfirm]_vars
\* The state of InitOrphan after one more Create, of the second event
\* again, during which the token request failed (lines 763, 781-782): row 3
\* is stored with outlook_event_id None, next to the linked row 1 and the
\* event e2 that has no row
InitLink ==
    LET f     == BaseForm
        g     == ReviewForm
        b(h, id) == ReplacePlaceholder(CombinedBody(h), id)
        t(h)  == [is_all_day |-> h.is_all_day, start_date |-> h.start_date,
                  end_date |-> h.end_date, tz_choice |-> h.tz_choice]
        s0    == [confirm_no_link |-> FALSE, prev_event_type_create |-> NULL]
    IN  /\ events = (1 :> CreateRow(f, "e1", b(f, "e1")))
                     @@ (3 :> CreateRow(g, NULL, CombinedBody(g)))
        /\ nextId = 4
        /\ notifs = CreateNotifications(f, 1, TRUE) \cup CreateNotifications(g, 3, TRUE)
        /\ cal = ("e1" :> [CalEventOf(CreatePayload(f)) EXCEPT
                              !.body = [ctype |-> "html", content |-> b(f, "e1")]])
                  @@ ("e2" :> [CalEventOf(CreatePayload(g)) EXCEPT
                                 !.body = [ctype |-> "html", content |-> b(g, "e2")]])
        /\ usedIds = {"e1", "e2"}
        /\ session = CreateTabSession(s0, f.event_type)
        /\ last = [ op |-> "create", result |-> "done",
                    calls |-> <<"graph_token", "events_insert">>,
                    msgs |-> {"warning", "success"}, entered |-> t(g),
                    payload |-> CreatePayload(g),
                    storeFailed |-> FALSE, linked |-> FALSE, patched |-> FALSE,
                    notifLost |-> FALSE, event_type |-> g.event_type,
                    virtual_link |-> g.virtual_link, form |-> g, row |-> 3 ]
        /\ cursor = NULL
        /\ entered = (1 :> t(f)) @@ (3 :> t(g))
        /\ config = [graph |-> TRUE, supabase |-> TRUE]
        /\ start = [ctype |-> "html", segs |-> << >>]
        /\ body = [ctype |-> "html", content |-> << >>]
        /\ blkArgs = [name |-> "R&D", id |-> "e1"]
        /\ applied = 0

\* A linked and an unlinked row under everything that writes rows after
\* Create: Save Changes, the sync pass and the refresh
NextLink ==
    \/ SaveRename
    \/ BulkSyncOnePage
    \/ RefreshSelectedEvent

SpecLink == InitLink /\ [][NextLink]_vars
SpecPull == InitSynced /\ [][NextPull]_vars

\* Outlook -> app: events are created, change in Outlook, and are pulled
\* back by the sidebar tools
NextSync ==
    \/ CreateEvent
    \/ BulkSyncNow
    \/ RefreshSelectedEvent
    \/ OutlookEdit
    \/ OutlookRemove

SpecSync == Init /\ [][NextSync]_vars

----------------------------------------------------------------------------
(* Claims about the manager block (checked under SpecBlock)                *)

\* Number of manager blocks in a body: occurrences, left to right and not
\* overlapping, of the label followed by a bracketed token.
RECURSIVE CountBlocks(_)
CountBlocks(s) ==
    LET k == LabelIdEnd(s, 0)
    IN  IF k = 0 THEN 0 ELSE 1 + CountBlocks(SubSeq(s, k + 1, Len(s)))

StartBody == Flatten(start.segs)
BodyIds(s) == {s[i].v : i \in {j \in 1..Len(s) : s[j].k = "id"}}
\* the identifier the block at the end of the body carries
EmittedId == body.content[Len(body.content) - 2].v

\* C5: after k >= 1 successful calls with the same (name, id), whatever
\* the body started as, the body holds exactly one manager block.
C5_ExactlyOneBlock == applied >= 1 => CountBlocks(body.content) = 1

\* C5 witness: two calls were made on a body that started with several
\* manager blocks.
C5_Witness == applied >= 2 /\ CountBlocks(StartBody) >= 2 /\ CountBlocks(body.content) = 1

\* C6: the block written by the call carries an identifier that was
\* already in the body when the body held a bracketed token, and the
\* argument only when the body held none.
C6_ExistingTokenWins ==
    applied = 1 =>
        IF BodyIds(StartBody) # {}
        THEN EmittedId \in BodyIds(StartBody)
        ELSE EmittedId = blkArgs.id

\* C6 witness: the body held the token of e1, the call passed e2, and the
\* block written carries e1.
C6_Witness ==
    /\ applied = 1
    /\ BodyIds(StartBody) = {"e1"}
    /\ blkArgs.id = "e2"
    /\ EmittedId = "e1"

NotManagerSeg(seg) == seg \notin ManagerSegs
OtherParts(ss) == Flatten(SelectSeq(ss, NotManagerSeg))

\* C7: the call leaves everything that is not a manager block as it was
\* and in the same order: the new body is the other parts of the old one
\* followed by the one block appended.  (Bodies of HTML whose other parts
\* hold neither a stray label nor a stray token.)
C7_OtherContentKept ==
    ( /\ applied = 1
      /\ start.ctype = "html"
      /\ \A i \in 1..Len(start.segs) : start.segs[i] \in OtherSegs \cup ManagerSegs )
    => SubSeq(body.content, 1, Len(body.content) - 6) = OtherParts(start.segs)

----------------------------------------------------------------------------
(* Claims about intake and editing (checked under Spec; C1 under           *)
(* SpecCreate)                                                             *)

Range(f) == { f[x] : x \in DOMAIN f }

CalendarCalls == {"graph_token", "graph_create", "graph_patch_body", "graph_patch_core",
                  "manager_block", "client_block", "graph_delete"}

\* C1: a Create that got past validation and whose insert the store did
\* not refuse leaves a local row, whatever the calendar calls did; when the
\* token request or the calendar create failed, the outlook_event_id of
\* that row is null.
C1_CreateAlwaysWritesRow ==
    (last.op = "create" /\ last.result = "done" /\ ~last.storeFailed) =>
        /\ last.row \in DOMAIN events
        /\ ~last.linked => events[last.row].outlook_event_id = NULL

\* C1, its case: Graph is configured, the token request or the create
\* failed, and the row is there with a null id.
C1_Witness ==
    /\ last.op = "create" /\ last.result = "done"
    /\ config.graph /\ "graph_token" \in Range(last.calls) /\ ~last.linked
    /\ last.row \in DOMAIN events
    /\ events[last.row].outlook_event_id = NULL

\* C2: Save Changes on an event whose outlook_event_id is null makes no
\* calendar call and, the store accepting writes, leaves the row with the
\* values of the edit form.
C2_NullIdUpdateAppliesLocally ==
    (last.op = "update" /\ last.result = "done" /\ ~last.linked /\ ~last.storeFailed) =>
        /\ Range(last.calls) \cap CalendarCalls = {}
        /\ last.row \in DOMAIN events
        /\ events[last.row].subject = last.form.subject
        /\ events[last.row].meeting_manager_name = last.form.manager_name

\* C3: when the core PATCH of a Save Changes fails, the update of the
\* local row is still attempted.
C3_PatchFailureStillUpdatesRow ==
    (last.op = "update" /\ last.result = "done" /\ last.coreFailed) =>
        "events_update" \in Range(last.calls)

\* C4: after a Delete the store did not refuse, the local row is absent,
\* whatever the calendar-side calls did.
C4_DeleteRemovesRow ==
    (last.op = "delete" /\ ~last.storeFailed) => last.row \notin DOMAIN events

\* C8: the payload Create sends for an all-day event has the entered start
\* date as date-only start, the day after the last inclusive day as end,
\* and the Windows zone of the chosen label on both.
C8_AllDayPayloadEndExclusive ==
    (last.op = "create" /\ last.result = "done" /\ last.entered.is_all_day
       /\ "graph_create" \in Range(last.calls)) =>
        /\ last.payload.isAllDay
        /\ last.payload.start = [dateTime |-> IsoDate(last.entered.start_date),
                                 timeZone |-> TZ_MAP(last.entered.tz_choice)]
        /\ last.payload.end = [dateTime |-> IsoDate(Max2(last.entered.end_date,
                                                        last.entered.start_date) + 1),
                               timeZone |-> TZ_MAP(last.entered.tz_choice)]

----------------------------------------------------------------------------
(* Claims about the way back from Outlook (C9 under SpecSync, C10 under    *)
(* SpecPull)                                                               *)

\* The row id was last written by a sync of its own calendar event
SyncedFromOwnEvent(id) ==
    /\ last.op \in {"bulk_sync", "refresh"}
    /\ \E t \in last.touched : t.row = id /\ t.from = events[id].outlook_event_id

\* C9: an all-day event entered with last day D, created in the calendar,
\* returned by the calendar and mapped into its row, is shown by the edit
\* form with end date D.
C9_AllDayRoundTrip ==
    \A id \in DOMAIN events :
        (entered[id].is_all_day /\ entered[id].end_date >= entered[id].start_date
           /\ SyncedFromOwnEvent(id)) =>
            EditSeed(events[id]).end_date = entered[id].end_date

AppOwned == {"meeting_manager_name", "meeting_manager_email", "accreditation_required",
             "client", "event_type", "virtual_provider", "reminder_minutes",
             "outlook_event_id"}

\* C10: a bulk sync pass or a refresh leaves the app-owned fields of every
\* row as they were: manager name and email, accreditation flag, client,
\* event kind, virtual provider, reminder minutes, outlook_event_id.
C10_SyncKeepsAppOwnedFields ==
    [][ last'.op \in {"bulk_sync", "refresh"} =>
          \A id \in DOMAIN events \cap DOMAIN events' :
              \A k \in AppOwned : events'[id][k] = events[id][k] ]_vars

\* C10, its case: a sync wrote the subject changed in Outlook into a row.
C10_Witness ==
    /\ last.op \in {"bulk_sync", "refresh"}
    /\ \E t \in last.touched :
          /\ events[t.row].subject = "Moved"
          /\ events[t.row].meeting_manager_name = "Ann"

----------------------------------------------------------------------------
(* Claims about the delta sync pass (checked under SpecPull)               *)

\* The positions of call c in a log of calls
Positions(calls, c) == { i \in 1..Len(calls) : calls[i] = c }

DeltaFetches == {"delta_window", "delta_cursor", "delta_next"}

\* C11: a delta sync pass never inserts and never deletes a local event
\* row: removed records are skipped, records matching no row are ignored,
\* and the set of rows after the pass is the set before it.
C11_SyncKeepsRowSet ==
    [][ last'.op = "bulk_sync" => DOMAIN events' = DOMAIN events ]_vars

\* C11, its case: a pass skipped the removal of an event that still has its
\* row, and looked up a record that matches no row.
C11_Witness ==
    /\ last.op = "bulk_sync"
    /\ "success" \in last.msgs
    /\ \E r \in DOMAIN events : events[r].outlook_event_id \in last.skipped
    /\ \E i \in 1..Len(last.calls) :
          /\ last.calls[i] = "events_select"
          /\ (i = Len(last.calls) \/ last.calls[i + 1] # "events_update")

\* C12: a pass that finds no stored cursor sends its first request with the
\* start/end window; a pass that finds one sends the cursor and no window;
\* later pages are fetched by their link alone; and a pass that completes
\* with a terminal cursor on its last page stores that cursor.
C12_WindowThenCursor ==
    [][ (last'.op = "bulk_sync" /\ Len(last'.calls) >= 3) =>
          /\ last'.calls[3] = (IF cursor = NULL THEN "delta_window" ELSE "delta_cursor")
          /\ \A i \in 4..Len(last'.calls) : last'.calls[i] \notin {"delta_window", "delta_cursor"}
          /\ ("save_delta_link" \in Range(last'.calls) /\ "success" \in last'.msgs)
                => (cursor' = NewDeltaLink /\ cursor' # NULL) ]_vars

\* C12, its case: a second run read the cursor the first run stored, sent
\* it, and stored the next one.
C12_Witness ==
    /\ last.op = "bulk_sync"
    /\ "success" \in last.msgs
    /\ Len(last.calls) >= 3
    /\ last.calls[3] = "delta_cursor"
    /\ "save_delta_link" \in Range(last.calls)
    /\ cursor = "delta-B"

\* C13: in a pass the cursor is written at most once, and after every page
\* fetch and every row lookup and update of the pass; no page fetch follows
\* a cursor write.
C13_CursorWrittenOnceAtEnd ==
    last.op = "bulk_sync" =>
        /\ Cardinality(Positions(last.calls, "save_delta_link")) <= 1
        /\ \A i \in Positions(last.calls, "save_delta_link") :
              \A j \in 1..Len(last.calls) :
                  last.calls[j] \in DeltaFetches \cup {"events_select", "events_update"} => j < i

\* C13, its case: a pass of two pages that updated a row and then wrote the
\* cursor.
C13_Witness ==
    /\ last.op = "bulk_sync"
    /\ "delta_next" \in Range(last.calls)
    /\ "events_update" \in Range(last.calls)
    /\ "save_delta_link" \in Range(last.calls)
    /\ "success" \in last.msgs

\* C14: a pass that fails before the cursor write (token, read of the
\* cursor, a page fetch, a row update) leaves the stored cursor as it was,
\* so that the next pass starts from it.
C14_FailedPassKeepsCursor ==
    [][ (last'.op = "bulk_sync" /\ "error" \in last'.msgs
           /\ "save_delta_link" \notin Range(last'.calls)) => cursor' = cursor ]_vars

\* C14, its case: a pass started from a stored cursor, updated a row, and
\* failed on a later page or update.
C14_Witness ==
    /\ last.op = "bulk_sync"
    /\ "error" \in last.msgs
    /\ cursor # NULL
    /\ last.total_updates >= 1
    /\ "delta_cursor" \in Range(last.calls)
    /\ "save_delta_link" \notin Range(last.calls)

----------------------------------------------------------------------------
(* Claims about notifications (checked under SpecNotify, C16 under         *)
(* SpecSync, C18 under SpecCreate)                                         *)

\* The notifications of a type that belong to a row
NotificationsOf(ns, id, type) == { n \in ns : n.event_id = id /\ n.type = type }

\* C15: every event has at most one custom_email notification, and after
\* a Save Changes that asks for a reminder on a date that notification
\* carries the due time and the payload of that Save Changes.
C15_OneCustomEmailLatest ==
    /\ \A id \in DOMAIN events :
          Cardinality(NotificationsOf(notifs, id, "custom_email")) <= 1
    /\ (last.op = "update" /\ last.result = "done" /\ "success" \in last.msgs
          /\ last.form.rem_mode = "OnDate" /\ last.row \in DOMAIN events) =>
            \E n \in NotificationsOf(notifs, last.row, "custom_email") :
                /\ n.notify_at_utc = DueAt(last.form.reminder_datetime_local,
                                           IANA_MAP(last.form.tz_choice))
                /\ n.payload.to = last.form.manager_email
                /\ n.payload.subject = last.form.subject

\* C16: a missing_link notification exists only for an event that is
\* virtual and has no virtual link: once Create, Save Changes, a sync pass or
\* a refresh has given the event a link, or the event is no longer virtual,
\* it has no missing_link notification.
C16_MissingLinkOnlyWithoutLink ==
    \A n \in notifs :
        (n.type = "missing_link" /\ n.event_id \in DOMAIN events) =>
            /\ events[n.event_id].event_type = "virtual"
            /\ events[n.event_id].virtual_link = NULL

\* C17: after a Create or a Save Changes that leaves its event virtual with
\* no link, when the event had no missing_link notification before, the
\* event has a missing_link notification due seven days after the operation
\* (stated for the operations whose notification writes did not fail).
C17_MissingLinkSeeded ==
    [][ (/\ last'.op \in {"create", "update"}
         /\ last'.result = "done"
         /\ "success" \in last'.msgs
         /\ last'.op = "create" => ~last'.notifLost
         /\ last'.row \in DOMAIN events'
         /\ events'[last'.row].event_type = "virtual"
         /\ events'[last'.row].virtual_link = NULL
         /\ NotificationsOf(notifs, last'.row, "missing_link") = {})
        => \E n \in NotificationsOf(notifs', last'.row, "missing_link") :
               n.notify_at_utc = DueAfterNow(MissingLinkDays) ]_vars

\* C18: a virtual event with a blank link submitted while the confirmation
\* flag is unset halts with no calendar call and no local write and sets the
\* flag; submitted with the flag set, it creates the event and records a
\* missing_link notification due 7 days after the creation.
C18_ConfirmThenCreate ==
    [][ /\ (last'.op = "create" /\ last'.result = "halted") =>
              /\ last'.calls = << >>
              /\ events' = events /\ notifs' = notifs /\ cal' = cal
              /\ session'.confirm_no_link
        /\ (last'.op = "create" /\ last'.result = "done"
               /\ last'.event_type = "Virtual" /\ last'.virtual_link = "") =>
              /\ session.confirm_no_link
              /\ session.prev_event_type_create = "Virtual"
              /\ ~last'.storeFailed =>
                    /\ last'.row \in DOMAIN events' \ DOMAIN events
                    /\ events'[last'.row].event_type = "virtual"
                    /\ events'[last'.row].virtual_link = NULL
              /\ (~last'.storeFailed /\ ~last'.notifLost) =>
                    \E n \in NotificationsOf(notifs', last'.row, "missing_link") :
                        n.notify_at_utc = DueAfterNow(MissingLinkDays) ]_vars

\* C18, its case: the second submission created the event and its
\* missing_link notification.
C18_Witness ==
    /\ last.op = "create" /\ last.result = "done"
    /\ last.event_type = "Virtual" /\ last.virtual_link = ""
    /\ session.confirm_no_link
    /\ last.row \in DOMAIN events
    /\ NotificationsOf(notifs, last.row, "missing_link") # {}

----------------------------------------------------------------------------
(* Claims about validation (checked under SpecCreate)                      *)

\* C19: a timed Create or Save Changes whose end is not after its start is
\* rejected before any calendar call and any store write, so that every
\* timed row has its end instant strictly after its start instant.
C19_TimedEndAfterStart ==
    /\ (last.op \in {"create", "update"} /\ last.result = "rejected") => last.calls = << >>
    /\ \A id \in DOMAIN events :
          ~events[id].is_all_day => events[id].end_dt_utc > events[id].start_dt_utc

----------------------------------------------------------------------------
(* Claims about the body of a linked event under Save Changes (checked     *)
(* under SpecManager)                                                      *)

IsClientAcc(t) == t.k \in {"client", "acc"}
\* The client and accreditation lines of a body, in order
ClientAccLines(s) == SelectSeq(s, IsClientAcc)

\* A Save Changes of a linked event that went through with no warning and
\* whose form differs from what the row holds in the manager name alone
ManagerOnlyUpdate(before, after) ==
    /\ after.op = "update" /\ after.result = "done" /\ after.msgs = {"success"}
    /\ after.linked
    /\ after.row \in DOMAIN before
    /\ after.form = [EditSeed(before[after.row]) EXCEPT !.manager_name = after.form.manager_name]
    /\ after.form.manager_name # before[after.row].meeting_manager_name

\* C20: after a Save Changes of a linked event that changes only the
\* manager name, the calendar body holds the new name exactly once, the
\* identifier token it held before is unchanged, and its client and
\* accreditation lines are unchanged.
C20_ManagerOnlyUpdateKeepsRest ==
    [][ ManagerOnlyUpdate(events, last') =>
          LET oid  == events[last'.row].outlook_event_id
              old  == cal[oid].body.content
              new  == cal'[oid].body.content
              name == HtmlEscape(last'.form.manager_name)
          IN  /\ Cardinality({i \in 1..Len(new) : new[i] = MmTok(name)}) = 1
              /\ BodyIds(new) = BodyIds(old)
              /\ ClientAccLines(new) = ClientAccLines(old) ]_vars

----------------------------------------------------------------------------
(* Claims about failures inside Save Changes and Create (C21 under         *)
(* SpecEdit, C22 under SpecCreate)                                         *)

\* The calls of a log that come after the first call c
CallsAfter(calls, c) ==
    LET p == Min(Positions(calls, c))
    IN  {calls[i] : i \in (p + 1)..Len(calls)}

\* C21: when update_outlook_manager_block fails inside a Save Changes (the
\* warning of line 1199 is shown), the calendar body is what it was before
\* the click apart from the client and accreditation lines the next step
\* rewrites, and the rest of the handler still runs: the client and
\* accreditation refresh and the row update are called, the row takes the
\* form's values unless the store fails, and the notifications are handled
\* when nothing after the manager block fails.
C21_ManagerBlockFailureNonFatal ==
    [][ (last'.op = "update" /\ last'.result = "done" /\ "warning_manager" \in last'.msgs) =>
          LET id  == last'.row
              oid == events[id].outlook_event_id
          IN  /\ DropClientAcc(cal'[oid].body.content) = DropClientAcc(cal[oid].body.content)
              /\ {"client_block", "events_update"} \subseteq CallsAfter(last'.calls, "manager_block")
              /\ ~last'.storeFailed => events'[id] = UpdateRow(events[id], last'.form)
              /\ "success" \in last'.msgs =>
                     notifs' = UpdateNotifications(notifs, id, events[id], last'.form) ]_vars

\* A Save Changes that renamed the manager in the row while the manager
\* block of the calendar body could not be rewritten
C21_Witness ==
    /\ last.op = "update" /\ last.result = "done"
    /\ last.msgs = {"warning_manager", "success"}
    /\ last.written
    /\ events[last.row].meeting_manager_name = "Bob"
    /\ \E i \in 1..Len(cal[events[last.row].outlook_event_id].body.content) :
           cal[events[last.row].outlook_event_id].body.content[i] = MmTok("Ann")

\* C22: a Create whose calendar create went through and whose PATCH of the
\* body failed leaves, the store accepting the insert, a local row whose
\* outlook_event_id is the id the calendar returned.
C22_PatchFailureKeepsId ==
    (last.op = "create" /\ last.result = "done" /\ last.linked /\ ~last.patched
       /\ ~last.storeFailed) =>
        /\ last.row \in DOMAIN events
        /\ events[last.row].outlook_event_id # NULL
        \* the id the calendar handed out last
        /\ events[last.row].outlook_event_id = EventIdSeq[Cardinality(usedIds)]

\* A row linked to an event whose body still holds the placeholder
C22_Witness ==
    /\ last.op = "create" /\ last.result = "done" /\ last.linked /\ ~last.patched
    /\ "warning" \in last.msgs
    /\ last.row \in DOMAIN events
    /\ events[last.row].outlook_event_id \in DOMAIN cal
    /\ \E i \in 1..Len(cal[events[last.row].outlook_event_id].body.content) :
           cal[events[last.row].outlook_event_id].body.content[i] = IdTok(Placeholder)

----------------------------------------------------------------------------
(* Claims about what Create, Save Changes and Delete report and in which   *)
(* order they call (C23 under Spec, C24 under SpecEdit)                    *)

\* The last click was a Create, Save Changes or Delete that got past
\* validation
ActionRan == last.op \in {"create", "update", "delete"} /\ last.result = "done"

\* The write of the last action to the events table went through
WroteLocally ==
    CASE last.op = "create" -> last.row \in DOMAIN events
      [] last.op = "update" -> last.written
      [] last.op = "delete" -> last.row \notin DOMAIN events

\* A calendar call of the last action failed
CalendarFailed ==
    CASE last.op = "create" -> "graph_token" \in Range(last.calls) /\ ~(last.linked /\ last.patched)
      [] last.op = "update" -> "graph_token" \in Range(last.calls)
                               /\ ("graph_patch_core" \notin Range(last.calls) \/ last.coreFailed)
      [] last.op = "delete" -> last.tokenFailed \/ last.deleteFailed

\* C23: Create, Save Changes and Delete show their success message exactly
\* when their write to the events table went through; in particular a
\* failed calendar call with a store that accepts the write still ends in
\* the success message.
C23_SuccessIffLocalWrite ==
    ActionRan =>
        /\ "success" \in last.msgs <=> WroteLocally
        /\ (CalendarFailed /\ ~last.storeFailed) => "success" \in last.msgs

EventsWrites == {"events_insert", "events_update", "events_delete"}

\* C24: in the calls of a Create, a Save Changes or a Delete, no write to
\* the events table comes before a calendar call.
C24_CalendarBeforeStore ==
    ActionRan =>
        \A i, j \in 1..Len(last.calls) :
            (last.calls[i] \in EventsWrites /\ last.calls[j] \in CalendarCalls) => j < i

\* A Save Changes that made every calendar call and then the events update
C24_Witness ==
    /\ last.op = "update" /\ last.result = "done"
    /\ last.calls = <<"graph_token", "graph_patch_core", "manager_block", "client_block",
                      "events_update">>
    /\ last.written

----------------------------------------------------------------------------
(* Claims about the kind of an event: location or platform and link        *)
(* (checked under SpecKind)                                                *)

\* C25: every row holds either a location and neither platform nor link
\* (in_person) or a platform and a link and no location (virtual).
C25_LocationXorVirtual ==
    \A id \in DOMAIN events :
        LET r == events[id]
        IN  IF r.event_type = "in_person"
            THEN r.location # NULL /\ r.virtual_provider = NULL /\ r.virtual_link = NULL
            ELSE r.location = NULL /\ r.virtual_provider # NULL /\ r.virtual_link # NULL

\* C26: the payload of a Create sets isOnlineMeeting and the Teams provider
\* exactly when the event is virtual on Teams, and for a virtual event on
\* Zoom or another platform with a link the location display name of the
\* payload is that link.
C26_TeamsFlagOrLinkInLocation ==
    (last.op = "create" /\ last.result = "done") =>
        /\ (last.payload.isOnlineMeeting /\ last.payload.onlineMeetingProvider = "teamsForBusiness")
             <=> (last.event_type = "Virtual" /\ last.form.virtual_provider = "teams")
        /\ (last.event_type = "Virtual" /\ last.form.virtual_provider \in {"zoom", "other"}
              /\ last.virtual_link \notin {NULL, ""})
             => last.payload.location = last.virtual_link

----------------------------------------------------------------------------
(* Claims about missing credentials (checked under SpecCreate)            *)

\* C30: with a calendar or a store credential missing, a Create submission
\* calls the calendar not at all and writes no row: the calendar and the
\* events table stay empty.
C30_NoCreateWithoutCredentials ==
    (last.op = "create" /\ ~(config.graph /\ config.supabase))
        => /\ \A i \in DOMAIN last.calls :
                last.calls[i] \notin {"graph_token", "graph_create", "graph_patch_body"}
           /\ DOMAIN cal = {}
           /\ DOMAIN events = {}

----------------------------------------------------------------------------
(* Claims about the payloads (checked under SpecPayload)                   *)

\* C27: every payload Create builds has showAs "free", and every event of
\* the calendar the app created has showAs "free" in every state, after
\* any number of Save Changes.
C27_AlwaysFree ==
    /\ (last.op = "create" /\ last.result = "done") => last.payload.showAs = "free"
    /\ \A oid \in DOMAIN cal : cal[oid].showAs = "free"

\* A Save Changes has patched the event with the longest reminder in
\* minutes, and the event is still shown as free
C27_Witness ==
    /\ last.op = "update" /\ last.result = "done" /\ last.written
    /\ "graph_patch_core" \in Range(last.calls)
    /\ last.form.rem_mode = "Minutes" /\ last.form.reminder_minutes = MinutesMax
    /\ LET oid == events[last.row].outlook_event_id
       IN  /\ cal[oid].reminderMinutesBeforeStart = MinutesMax
           /\ cal[oid].showAs = "free"

\* The lead time a form asks for
LeadOfForm(f) ==
    CASE f.rem_mode = "Minutes" -> f.reminder_minutes
      [] f.rem_mode = "Days"    -> f.reminder_days * 1440
      [] OTHER                  -> 0

\* C29: the reminder lead time Create and Save Changes send to the calendar
\* and store in the row is the minutes entered in minutes mode, the days
\* entered times 1440 in days mode and 0 in date mode, and lies in 0..525600.
C29_ReminderLeadTime ==
    /\ (last.op = "create" /\ last.result = "done")
         => /\ last.payload.reminderMinutesBeforeStart = LeadOfForm(last.form)
            /\ last.payload.reminderMinutesBeforeStart \in 0..525600
            /\ last.row \in DOMAIN events
                 => /\ events[last.row].reminder_minutes = LeadOfForm(last.form)
                    /\ events[last.row].reminder_minutes \in 0..525600
    /\ (last.op = "update" /\ last.result = "done")
         => /\ "manager_block" \in Range(last.calls)
                 => LET oid == events[last.row].outlook_event_id
                    IN  /\ cal[oid].reminderMinutesBeforeStart = LeadOfForm(last.form)
                        /\ cal[oid].reminderMinutesBeforeStart \in 0..525600
            /\ last.written
                 => /\ events[last.row].reminder_minutes = LeadOfForm(last.form)
                    /\ events[last.row].reminder_minutes \in 0..525600

\* A Save Changes has set the longest reminder in days on the event and in
\* the row
C29_Witness ==
    /\ last.op = "update" /\ last.result = "done" /\ last.written
    /\ last.form.rem_mode = "Days" /\ last.form.reminder_days = DaysMax
    /\ events[last.row].reminder_minutes = 525600
    /\ cal[events[last.row].outlook_event_id].reminderMinutesBeforeStart = 525600

----------------------------------------------------------------------------
(* Claims about the mapping of timestamps (checked under SpecStamp)       *)

\* The UTC instant a timestamp of a calendar record stands for: the wall
\* clock less the offset written in it, or less the offset of the zone it
\* names at that wall clock, or the wall clock itself when it has neither
InstantOfStamp(s) ==
    LET d    == s.dateTime
        wall == d.date * DayMinutes + d.time
    IN  IF "offset" \in DOMAIN d THEN wall - d.offset
        ELSE IF "timeZone" \in DOMAIN s THEN wall - WallOffset(s.timeZone, wall)
        ELSE wall

\* C28: the mapping stores, for the start and for the end of a record, the
\* UTC instant of the wall time in the zone the timestamp names; only a
\* timestamp with no zone information is taken as UTC.
C28_ZoneNameHonoured ==
    (last.op = "map" /\ last.result = "done")
        => /\ last.updates.start_dt_utc = InstantOfStamp(last.g.start)
           /\ last.updates.end_dt_utc = InstantOfStamp(last.g.end)

----------------------------------------------------------------------------
(* Claims about the scope of the PATCH requests (checked under SpecEdit)   *)

\* C31: every PATCH a Save Changes issues has one of two scopes: the core
\* PATCH sends subject, all-day flag, start, end, the reminder fields and
\* location and never the body; the PATCH of the manager block sends the
\* body and nothing else.
C31_PatchScopes ==
    (last.op = "update" /\ last.result = "done")
        => \A i \in DOMAIN last.patches :
              LET p == last.patches[i]
              IN  /\ p.fields \in { {"subject", "isAllDay", "start", "end", "isReminderOn",
                                     "reminderMinutesBeforeStart", "location"},
                                    {"body"} }
                  /\ p.call = "graph_patch_core" => "body" \notin p.fields
                  /\ p.call = "manager_block" => p.fields = {"body"}

\* A Save Changes that issued the core PATCH and then the PATCH of the
\* manager block
C31_Witness ==
    /\ last.op = "update" /\ last.result = "done"
    /\ Len(last.patches) >= 2
    /\ last.patches[1].call = "graph_patch_core"
    /\ last.patches[2].call = "manager_block"
    /\ "subject" \in last.patches[1].fields

----------------------------------------------------------------------------
(* Claims about which row a sync writes (checked under SpecOrphan)         *)

\* C32: a bulk sync pass or a refresh writes the fields of a calendar event
\* only onto the row whose outlook_event_id is the id of that event.
C32_SyncWritesOwnRow ==
    (last.op \in {"bulk_sync", "refresh"} /\ last.result = "done")
        => \A t \in last.touched :
              /\ t.row \in DOMAIN events
              /\ events[t.row].outlook_event_id = t.from

----------------------------------------------------------------------------
(* Claims about the owner of a notification (checked under SpecNotify)     *)

\* C33: after any Create, Save Changes and Delete, every row of
\* notifications carries the id of a row of events that exists.
C33_NotificationsOwned ==
    \A n \in notifs : n.event_id \in DOMAIN events

----------------------------------------------------------------------------
(* Claims about the body after Save Changes (checked under SpecEdit)       *)

\* C34: after a Save Changes whose manager-block update succeeded, the
\* body of the event holds an identifier token, and every identifier
\* token of it is the event's own calendar id, also when the body still
\* held the placeholder of Create.
C34_TokenIsOwnId ==
    (/\ last.op = "update" /\ last.result = "done"
     /\ "manager_block" \in Range(last.calls)
     /\ "warning_manager" \notin last.msgs)
        => LET oid == events[last.row].outlook_event_id
               c   == cal[oid].body.content
           IN  /\ \E i \in DOMAIN c : c[i].k = "id"
               /\ \A i \in DOMAIN c : c[i].k = "id" => c[i].v = oid

\* C35: after a Create and after a Save Changes of a calendar-linked event,
\* the body cached in the row (outlook_body_html) is the body the calendar
\* holds for the event.
C35_CachedBodyIsCalendarBody ==
    (/\ last.op \in {"create", "update"} /\ last.result = "done"
     /\ last.row \in DOMAIN events
     /\ events[last.row].outlook_event_id \in DOMAIN cal)
        => events[last.row].outlook_body_html
             = cal[events[last.row].outlook_event_id].body.content

----------------------------------------------------------------------------
(* Claims about the confirmation of a blank link (checked under            *)
(* SpecConfirm, where every step is a submission of the Create form)      *)

\* C36: a virtual event with a blank link is created only by the
\* submission that follows a halted submission of that same event: the
\* confirmation asked for one event does not let another be created.
C36_ConfirmationPerSubmission ==
    [][ (/\ last'.op = "create" /\ last'.result = "done"
         /\ (last'.row \in DOMAIN events' \/ last'.linked)
         /\ last'.form.event_type = "Virtual" /\ last'.form.virtual_link = "")
            => /\ last.op = "create" /\ last.result = "halted"
               /\ last.form = last'.form ]_vars

----------------------------------------------------------------------------
(* Claims about all-day events in Create and Save Changes (checked under   *)
(* Spec)                                                                   *)

\* The date on which the end stored in a row falls in the zone of the row
StoredEndDate(ev) == AsZone(ev.end_dt_utc, ev.timezone_display).date

\* C37: for an all-day event, a Save Changes that changes no field of the
\* form sends the calendar the start and end dates it held before, and the
\* end Create and Save Changes send to the calendar is the date of the end
\* they store in the row.
C37_AllDayCreateUpdateAgree ==
    [][ /\ (/\ last'.op = "update" /\ last'.result = "done"
            /\ "manager_block" \in Range(last'.calls)
            /\ last'.form = EditSeed(events[last'.row])
            /\ last'.form.is_all_day)
             => LET oid == events[last'.row].outlook_event_id
                IN  /\ cal'[oid].start.dateTime.date = cal[oid].start.dateTime.date
                    /\ cal'[oid].end.dateTime.date = cal[oid].end.dateTime.date
                    /\ last'.written
                         => cal'[oid].end.dateTime.date = StoredEndDate(events'[last'.row])
        /\ (/\ last'.op = "create" /\ last'.result = "done"
            /\ last'.form.is_all_day /\ last'.linked
            /\ last'.row \in DOMAIN events')
             => last'.payload.end.dateTime.date = StoredEndDate(events'[last'.row]) ]_vars

----------------------------------------------------------------------------
(* Claims about the link of a row to its event (checked under SpecLink)    *)

\* C38: no step changes the outlook_event_id of a row that exists before
\* and after it: a row stored with a null id stays unlinked and a linked
\* row keeps the id Create wrote.
C38_LinkFixed ==
    [][ \A id \in DOMAIN events \cap DOMAIN events' :
           events'[id].outlook_event_id = events[id].outlook_event_id ]_vars

\* A refresh with the id of the event that has no row, while the unlinked
\* row was selected, has written onto that row, and the row is unlinked
\* still; the other row keeps its link.
C38_Witness ==
    /\ last.op = "refresh" /\ last.result = "done"
    /\ last.touched = {[row |-> 3, from |-> "e2"]}
    /\ events[3].outlook_event_id = NULL
    /\ events[1].outlook_event_id = "e1"

====
